---- MODULE Spec2Model ----
(***************************************************************************)
(* Model of the mcp-swagger pipeline: the tool synthesis of                 *)
(* src/core/generator.ts, the normalizer of src/core/parser.ts, the         *)
(* validator of src/core/validator.ts and the batch entry point of          *)
(* src/types/index.ts.  Strings are sequences of one-character             *)
(* strings so that the substring, case and split operations of the source  *)
(* are computed character by character.  JavaScript objects whose key      *)
(* order is observable (properties maps) are ordered maps: sequences of    *)
(* [key, value] records with pairwise distinct keys.                       *)
(***************************************************************************)
EXTENDS Integers, Sequences, FiniteSets, TLC

VARIABLES pc, spec, i, tools, schema, out, inputs

vars == <<pc, spec, i, tools, schema, out, inputs>>

\* F applied to the value of x: JavaScript evaluates an argument once, before
\* the call
ByValue(F(_), x) == CHOOSE r \in {F(v) : v \in {x}} : TRUE

ByValue2(F(_, _), x, y) == CHOOSE r \in {F(v, w) : v \in {x}, w \in {y}} : TRUE

(***************************************************************************)
(* JavaScript string primitives                                            *)
(***************************************************************************)
UpperLetters ==
  <<"A","B","C","D","E","F","G","H","I","J","K","L","M",
    "N","O","P","Q","R","S","T","U","V","W","X","Y","Z">>

LowerLetters ==
  <<"a","b","c","d","e","f","g","h","i","j","k","l","m",
    "n","o","p","q","r","s","t","u","v","w","x","y","z">>

DigitChars == <<"0","1","2","3","4","5","6","7","8","9">>

Range(s) == {s[k] : k \in DOMAIN s}

isUpper(c) == c \in Range(UpperLetters)

\* /[a-zA-Z0-9]/
isAlnum(c) == c \in Range(UpperLetters) \cup Range(LowerLetters) \cup Range(DigitChars)

toLowerChar(c) ==
  IF isUpper(c)
    THEN LowerLetters[CHOOSE k \in DOMAIN UpperLetters : UpperLetters[k] = c]
    ELSE c

\* String.prototype.toLowerCase
toLowerCase(s) == [k \in 1..Len(s) |-> toLowerChar(s[k])]

toUpperChar(c) ==
  IF c \in Range(LowerLetters)
    THEN UpperLetters[CHOOSE k \in DOMAIN LowerLetters : LowerLetters[k] = c]
    ELSE c

\* String.prototype.toUpperCase
toUpperCase(s) == [k \in 1..Len(s) |-> toUpperChar(s[k])]

\* String.prototype.startsWith
startsWith(s, pat) == Len(pat) <= Len(s) /\ SubSeq(s, 1, Len(pat)) = pat

\* String.prototype.includes
includes(s, pat) ==
  \E k \in 0..(Len(s) - Len(pat)) : SubSeq(s, k + 1, k + Len(pat)) = pat

\* String.prototype.replace(pat, rep) with a string pattern: the first
\* occurrence only.
replaceFirst(s, pat, rep) ==
  IF ~includes(s, pat) THEN s
  ELSE LET k == CHOOSE j \in 0..(Len(s) - Len(pat)) :
                  /\ SubSeq(s, j + 1, j + Len(pat)) = pat
                  /\ \A h \in 0..(j - 1) : SubSeq(s, h + 1, h + Len(pat)) # pat
       IN SubSeq(s, 1, k) \o rep \o SubSeq(s, k + Len(pat) + 1, Len(s))

\* String.prototype.replace(/c/g, d) for a one-character class {c}
replaceAllChar(s, c, d) == [k \in 1..Len(s) |-> IF s[k] = c THEN d ELSE s[k]]

\* String.prototype.replace(/[^a-zA-Z0-9]/g, '')
stripNonAlnum(s) == SelectSeq(s, isAlnum)

RECURSIVE split(_, _)
\* String.prototype.split(sep) for a one-character separator
split(s, sep) ==
  IF \A k \in DOMAIN s : s[k] # sep THEN <<s>>
  ELSE LET k == CHOOSE j \in DOMAIN s :
                  s[j] = sep /\ \A h \in 1..(j - 1) : s[h] # sep
       IN <<SubSeq(s, 1, k - 1)>>
            \o ByValue(LAMBDA rest : split(rest, sep), SubSeq(s, k + 1, Len(s)))

RECURSIVE join(_, _)
\* Array.prototype.join(sep)
join(parts, sep) ==
  IF Len(parts) = 0 THEN <<>>
  ELSE IF Len(parts) = 1 THEN parts[1]
  ELSE parts[1] \o sep \o join(Tail(parts), sep)

(***************************************************************************)
(* Ordered maps (JavaScript objects with string keys)                      *)
(***************************************************************************)
hasKey(m, k) == \E j \in DOMAIN m : m[j].key = k

getKey(m, k) == m[CHOOSE j \in DOMAIN m : m[j].key = k].value

keysOf(m) == [j \in 1..Len(m) |-> m[j].key]

\* m[k] = v : an existing key keeps its position, a new key is appended
setKey(m, k, v) ==
  IF hasKey(m, k)
    THEN [j \in 1..Len(m) |-> IF m[j].key = k THEN [key |-> k, value |-> v] ELSE m[j]]
    ELSE Append(m, [key |-> k, value |-> v])

RECURSIVE objectAssign(_, _)
\* Object.assign(target, source)
objectAssign(target, source) ==
  IF Len(source) = 0 THEN target
  ELSE ByValue(LAMBDA t : objectAssign(t, Tail(source)),
               setKey(target, source[1].key, source[1].value))

(***************************************************************************)
(* String constants of the source                                          *)
(***************************************************************************)
ComponentsPrefix ==
  <<"#","/","c","o","m","p","o","n","e","n","t","s","/","s","c","h","e","m","a","s","/">>

DefinitionsPrefix ==
  <<"#","/","d","e","f","i","n","i","t","i","o","n","s","/">>

(***************************************************************************)
(* Schema (types/index.ts): an optional field is a presence flag and a     *)
(* value, or the empty string when the source only tests its truthiness.   *)
(***************************************************************************)
EmptySchema ==
  [ref |-> <<>>, type |-> "",
   hasProperties |-> FALSE, properties |-> <<>>,
   hasRequired |-> FALSE, required |-> <<>>,
   hasAllOf |-> FALSE, allOf |-> <<>>,
   hasOneOf |-> FALSE, oneOf |-> <<>>,
   hasAnyOf |-> FALSE, anyOf |-> <<>>]

Typed(t) == [EmptySchema EXCEPT !.type = t]

RefTo(r) == [EmptySchema EXCEPT !.ref = r]

WithProperties(s, props) == [s EXCEPT !.hasProperties = TRUE, !.properties = props]

WithRequired(s, req) == [s EXCEPT !.hasRequired = TRUE, !.required = req]

Prop(k, v) == [key |-> k, value |-> v]

\* the result of resolveSchemaReference: null is [found |-> FALSE]
NullSchema == [found |-> FALSE, schema |-> EmptySchema]

\* spec.schemas[schemaName] || null; without spec.schemas the lookup raises
\* TypeError, which the catch of resolveSchemaReference turns into null
lookupSchema(sp, schemaName) ==
  IF "schemas" \notin DOMAIN sp THEN NullSchema
  ELSE IF hasKey(sp.schemas, schemaName)
    THEN [found |-> TRUE, schema |-> getKey(sp.schemas, schemaName)]
    ELSE NullSchema

\* the resolver knowing the OpenAPI 3.0 prefix only
resolveSchemaReferenceComponentsOnly(ref, sp) ==
  IF startsWith(ref, ComponentsPrefix)
    THEN lookupSchema(sp, replaceFirst(ref, ComponentsPrefix, <<>>))
  ELSE NullSchema

resolveSchemaReference(ref, sp) ==
  IF startsWith(ref, ComponentsPrefix)
    THEN lookupSchema(sp, replaceFirst(ref, ComponentsPrefix, <<>>))
  ELSE IF startsWith(ref, DefinitionsPrefix)
    THEN lookupSchema(sp, replaceFirst(ref, DefinitionsPrefix, <<>>))
  ELSE NullSchema

\* let r = sub; if (sub.$ref) r = resolveSchemaReference(sub.$ref, spec) || sub
resolveOrSelf(sub, sp) ==
  IF sub.ref = <<>> THEN sub
  ELSE ByValue(LAMBDA target : IF target.found THEN target.schema ELSE sub,
               resolveSchemaReference(sub.ref, sp))

\* one iteration of the allOf / anyOf loop body
\* if (r.properties) Object.assign(resolvedSchema.properties, r.properties)
mergeProperties(resolved, r) ==
  IF r.hasProperties
    THEN [resolved EXCEPT !.properties = objectAssign(@, r.properties)]
    ELSE resolved

\* if (r.required) resolvedSchema.required.push(...r.required)
mergeRequired(resolved, r) ==
  IF r.hasRequired THEN [resolved EXCEPT !.required = @ \o r.required] ELSE resolved

\* if (!resolvedSchema.type && r.type) resolvedSchema.type = r.type
mergeType(resolved, r) ==
  IF resolved.type = "" /\ r.type # "" THEN [resolved EXCEPT !.type = r.type] ELSE resolved

mergeSubSchema(resolved, sub, sp) ==
  ByValue(LAMBDA r :
            ByValue(LAMBDA withProps :
                      ByValue(LAMBDA withReq : mergeType(withReq, r),
                              mergeRequired(withProps, r)),
                    mergeProperties(resolved, r)),
          resolveOrSelf(sub, sp))

RECURSIVE mergeAll(_, _, _)
\* for (const subSchema of members) { ... }
mergeAll(resolved, members, sp) ==
  IF Len(members) = 0 THEN resolved
  ELSE ByValue(LAMBDA r : mergeAll(r, Tail(members), sp),
               mergeSubSchema(resolved, members[1], sp))

\* resolvedSchema.properties = {}; resolvedSchema.required = []; then the loop
mergeComposition(resolved, members, sp) ==
  mergeAll([resolved EXCEPT !.hasProperties = TRUE, !.properties = <<>>,
                            !.hasRequired = TRUE, !.required = <<>>],
           members, sp)

\* { ...a, ...b } : every field present in b replaces a's
spread(a, b) ==
  [ref |-> IF b.ref # <<>> THEN b.ref ELSE a.ref,
   type |-> IF b.type # "" THEN b.type ELSE a.type,
   hasProperties |-> a.hasProperties \/ b.hasProperties,
   properties |-> IF b.hasProperties THEN b.properties ELSE a.properties,
   hasRequired |-> a.hasRequired \/ b.hasRequired,
   required |-> IF b.hasRequired THEN b.required ELSE a.required,
   hasAllOf |-> a.hasAllOf \/ b.hasAllOf,
   allOf |-> IF b.hasAllOf THEN b.allOf ELSE a.allOf,
   hasOneOf |-> a.hasOneOf \/ b.hasOneOf,
   oneOf |-> IF b.hasOneOf THEN b.oneOf ELSE a.oneOf,
   hasAnyOf |-> a.hasAnyOf \/ b.hasAnyOf,
   anyOf |-> IF b.hasAnyOf THEN b.anyOf ELSE a.anyOf]

\* the oneOf step picking the last variant instead of the first
resolveOneOfLast(resolved, s, sp) ==
  IF s.hasOneOf /\ Len(s.oneOf) > 0
    THEN ByValue2(spread, resolved, resolveOrSelf(s.oneOf[Len(s.oneOf)], sp))
    ELSE resolved

resolveOneOf(resolved, s, sp) ==
  IF s.hasOneOf /\ Len(s.oneOf) > 0
    THEN ByValue2(spread, resolved, resolveOrSelf(s.oneOf[1], sp))
    ELSE resolved

\* if (schema.allOf) { ... }
resolveAllOf(s, sp) == IF s.hasAllOf THEN mergeComposition(s, s.allOf, sp) ELSE s

\* if (schema.anyOf) { ... }
resolveAnyOf(resolved, s, sp) ==
  IF s.hasAnyOf THEN mergeComposition(resolved, s.anyOf, sp) ELSE resolved

resolveSchemaComposition(s, sp) ==
  resolveAnyOf(resolveOneOf(resolveAllOf(s, sp), s, sp), s, sp)

(***************************************************************************)
(* Flattening engine                                                       *)
(***************************************************************************)
\* the call depth at which the engine raises RangeError (maximum call stack
\* size exceeded); the model's inputs nest far less deeply unless cyclic
StackLimit == 8

mapOpenApiTypeToZod(type) ==
  CASE type \in {"integer", "number"} -> "number"
    [] type = "boolean" -> "boolean"
    [] type = "array" -> "array"
    [] type = "object" -> "object"
    [] OTHER -> "string"

\* convertSchemaToZod: the type of the simplified property (the description
\* and the validation facets are copied through and not modelled); the
\* markers are set by the callers
convertSchemaToZod(s) ==
  [type |-> mapOpenApiTypeToZod(IF s.type # "" THEN s.type ELSE "string"),
   isPathParam |-> FALSE, isQueryParam |-> FALSE,
   isHeaderParam |-> FALSE, isBodyParam |-> FALSE,
   isFlattened |-> FALSE, originalPath |-> <<>>, parentObject |-> <<>>]

\* convertSchemaToZod(undefined)
convertUndefinedSchema == convertSchemaToZod(EmptySchema)

shouldFlattenObject(s) == s.hasProperties /\ Len(s.properties) > 0

Underscore == <<"_">>

Dot == <<".">>

flattenedNameOf(parentName, prefix, propName) ==
  IF prefix # <<>> THEN prefix \o Underscore \o propName
                   ELSE parentName \o Underscore \o propName

originalPathOf(parentName, prefix, propName) ==
  IF prefix # <<>>
    THEN parentName \o Dot
           \o replaceAllChar(replaceFirst(prefix, parentName \o Underscore, <<>>), "_", ".")
           \o Dot \o propName
    ELSE parentName \o Dot \o propName

\* the value functions return: the two outputs, or thrown
Extracted(props, req) == [thrown |-> FALSE, properties |-> props, required |-> req]

Thrown == [thrown |-> TRUE, properties |-> <<>>, required |-> <<>>]

\* Object.assign(properties, r.properties); required.push(...r.required)
absorb(acc, r) ==
  IF acc.thrown \/ r.thrown THEN Thrown
  ELSE Extracted(objectAssign(acc.properties, r.properties), acc.required \o r.required)

\* the else branch of flattenNestedObject: a leaf of the flattened object
flattenLeaf(acc, s, parentName, prefix, propName, resolved) ==
  LET flattenedName == flattenedNameOf(parentName, prefix, propName)
      flatProp == [convertSchemaToZod(resolved) EXCEPT
                     !.originalPath = originalPathOf(parentName, prefix, propName),
                     !.parentObject = parentName,
                     !.isFlattened = TRUE]
  IN Extracted(setKey(acc.properties, flattenedName, flatProp),
               IF s.hasRequired /\ propName \in Range(s.required)
                 THEN Append(acc.required, flattenedName)
                 ELSE acc.required)

RECURSIVE flattenLoop(_, _, _, _, _, _, _)
RECURSIVE flattenNestedObject(_, _, _, _, _)

\* for (const [propName, propSchema] of Object.entries(schema.properties)),
\* from entry j on, acc holding the properties and required built so far
flattenLoop(acc, s, sp, parentName, prefix, j, depth) ==
  IF acc.thrown THEN Thrown
  ELSE IF j > Len(s.properties) THEN acc
  ELSE ByValue(LAMBDA next : flattenLoop(next, s, sp, parentName, prefix, j + 1, depth),
         ByValue2(LAMBDA propName, resolved :
                    IF resolved.type = "object" /\ resolved.hasProperties
                      THEN ByValue(LAMBDA nested : absorb(acc, nested),
                             ByValue(LAMBDA name :
                                       flattenNestedObject(resolved, sp, parentName,
                                                           name, depth + 1),
                                     flattenedNameOf(parentName, prefix, propName)))
                      ELSE flattenLeaf(acc, s, parentName, prefix, propName, resolved),
                  s.properties[j].key, resolveOrSelf(s.properties[j].value, sp)))

flattenNestedObject(s, sp, parentName, prefix, depth) ==
  IF depth > StackLimit THEN Thrown
  ELSE IF ~s.hasProperties THEN Extracted(<<>>, <<>>)
  ELSE flattenLoop(Extracted(<<>>, <<>>), s, sp, parentName, prefix, 1, depth)

\* properties[propName] = convertSchemaToZod(...)
keepProperty(acc, propName, s) ==
  Extracted(setKey(acc.properties, propName, convertSchemaToZod(s)), acc.required)

\* the body of the loop over resolvedSchema.properties
\* const flattened = flattenNestedObject(s, spec, propName);
\* Object.assign(properties, flattened.properties);
\* required.push(...flattened.required)
flattenInto(acc, propName, s, sp, depth) ==
  ByValue(LAMBDA flattened : absorb(acc, flattened),
          flattenNestedObject(s, sp, propName, <<>>, depth + 1))

extractProperty(acc, propName, propSchema, sp, depth) ==
  IF propSchema.ref # <<>>
    THEN ByValue(LAMBDA nested :
                   IF nested.found
                     THEN IF shouldFlattenObject(nested.schema)
                            THEN flattenInto(acc, propName, nested.schema, sp, depth)
                            ELSE keepProperty(acc, propName, nested.schema)
                     ELSE keepProperty(acc, propName, propSchema),
                 resolveSchemaReference(propSchema.ref, sp))
  ELSE IF propSchema.type = "object" /\ shouldFlattenObject(propSchema)
    THEN flattenInto(acc, propName, propSchema, sp, depth)
  ELSE ByValue(LAMBDA composite :
                 IF composite.type = "object" /\ shouldFlattenObject(composite)
                   THEN flattenInto(acc, propName, composite, sp, depth)
                   ELSE keepProperty(acc, propName, composite),
               resolveSchemaComposition(propSchema, sp))

RECURSIVE extractLoop(_, _, _, _, _)
extractLoop(acc, props, sp, j, depth) ==
  IF acc.thrown THEN Thrown
  ELSE IF j > Len(props) THEN acc
  ELSE ByValue(LAMBDA next : extractLoop(next, props, sp, j + 1, depth),
               extractProperty(acc, props[j].key, props[j].value, sp, depth))

RECURSIVE extractSchemaPropertiesAt(_, _, _)
extractSchemaPropertiesAt(s, sp, depth) ==
  IF depth > StackLimit THEN Thrown
  ELSE IF s.ref # <<>> /\ resolveSchemaReference(s.ref, sp).found
    THEN ByValue(LAMBDA target : extractSchemaPropertiesAt(target.schema, sp, depth + 1),
                 resolveSchemaReference(s.ref, sp))
  ELSE ByValue(LAMBDA resolved :
                 ByValue(LAMBDA walked :
                           IF walked.thrown THEN Thrown
                           ELSE IF resolved.hasRequired
                             THEN Extracted(walked.properties,
                                            walked.required \o resolved.required)
                             ELSE walked,
                         IF resolved.hasProperties
                           THEN extractLoop(Extracted(<<>>, <<>>), resolved.properties,
                                            sp, 1, depth)
                           ELSE Extracted(<<>>, <<>>)),
               resolveSchemaComposition(s, sp))

extractSchemaProperties(s, sp) == extractSchemaPropertiesAt(s, sp, 1)

(***************************************************************************)
(* Tool synthesizer                                                        *)
(***************************************************************************)
authPatterns ==
  <<<<"/","a","u","t","h","/","l","o","g","i","n">>,
    <<"/","a","u","t","h","/","t","o","k","e","n">>,
    <<"/","t","o","k","e","n">>,
    <<"/","l","o","g","i","n">>,
    <<"/","o","a","u","t","h","/","t","o","k","e","n">>,
    <<"/","a","u","t","h","/","o","a","u","t","h","/","t","o","k","e","n">>,
    <<"/","v","2","/","a","u","t","h","/","l","o","g","i","n">>>>

operationIdKeywords ==
  <<<<"t","o","k","e","n">>, <<"a","u","t","h">>, <<"l","o","g","i","n">>,
    <<"a","u","t","h","e","n","t","i","c","a","t","e">>>>

descriptionKeywords ==
  <<<<"a","c","c","e","s","s"," ","t","o","k","e","n">>,
    <<"a","u","t","h","e","n","t","i","c","a","t","i","o","n">>,
    <<"l","o","g","i","n">>, <<"a","u","t","h">>>>

\* endpoint.description || endpoint.summary
descriptionOrSummary(endpoint) ==
  IF endpoint.description # <<>> THEN endpoint.description ELSE endpoint.summary

isAuthenticationEndpoint(endpoint) ==
  LET pathMatches ==
        \E j \in DOMAIN authPatterns :
          includes(toLowerCase(endpoint.path), toLowerCase(authPatterns[j]))
      operationIdMatches ==
        /\ endpoint.operationId # <<>>
        /\ \E j \in DOMAIN operationIdKeywords :
             includes(toLowerCase(endpoint.operationId), operationIdKeywords[j])
      descriptionMatches ==
        /\ descriptionOrSummary(endpoint) # <<>>
        /\ \E j \in DOMAIN descriptionKeywords :
             includes(toLowerCase(descriptionOrSummary(endpoint)), descriptionKeywords[j])
  IN pathMatches \/ operationIdMatches \/ descriptionMatches

RECURSIVE replaceUpper(_)
\* str.replace(/[A-Z]/g, letter => `_${letter.toLowerCase()}`)
replaceUpper(str) ==
  IF Len(str) = 0 THEN <<>>
  ELSE (IF isUpper(Head(str)) THEN <<"_", toLowerChar(Head(str))>> ELSE <<Head(str)>>)
         \o replaceUpper(Tail(str))

RECURSIVE replaceUpperKeepCase(_)
\* the replacement without letter.toLowerCase()
replaceUpperKeepCase(str) ==
  IF Len(str) = 0 THEN <<>>
  ELSE (IF isUpper(Head(str)) THEN <<"_", Head(str)>> ELSE <<Head(str)>>)
         \o replaceUpperKeepCase(Tail(str))

\* .replace(/^_/, '')
stripLeadingUnderscore(str) ==
  IF Len(str) > 0 /\ Head(str) = "_" THEN Tail(str) ELSE str

camelToSnakeCaseKeepCase(str) == stripLeadingUnderscore(replaceUpperKeepCase(str))

camelToSnakeCase(str) == stripLeadingUnderscore(replaceUpper(str))

\* .filter(part => part && !part.startsWith('{'))
isLiteralPart(part) == part # <<>> /\ ~startsWith(part, <<"{">>)

generateToolName(endpoint) ==
  IF endpoint.operationId # <<>>
    THEN camelToSnakeCase(endpoint.operationId)
    ELSE LET method == toLowerCase(endpoint.method)
             literal == SelectSeq(split(endpoint.path, "/"), isLiteralPart)
             pathParts == [j \in 1..Len(literal) |-> stripNonAlnum(literal[j])]
         IN method \o Underscore \o join(pathParts, Underscore)

Undefined == <<"u","n","d","e","f","i","n","e","d">>

\* param.name used as an object key (a missing name is the key "undefined")
nameKey(param) == IF param.hasName THEN param.name ELSE Undefined

\* convertSchemaToZod(param.schema, ...)
convertParamSchema(param) ==
  IF param.hasSchema THEN convertSchemaToZod(param.schema) ELSE convertUndefinedSchema

SignatureWord == <<"s","i","g","n","a","t","u","r","e">>

PayloadSignatureWord ==
  <<"x","-","p","a","y","l","o","a","d","-","s","i","g","n","a","t","u","r","e">>

isSignatureHeader(param) ==
  \/ includes(toLowerCase(param.name), SignatureWord)
  \/ includes(toLowerCase(param.name), PayloadSignatureWord)

\* the body of the loop over the path parameters
addPathParam(acc, param) ==
  IF param.in # "path" THEN acc
  ELSE Extracted(setKey(acc.properties, nameKey(param),
                        [convertParamSchema(param) EXCEPT !.isPathParam = TRUE]),
                 Append(acc.required, nameKey(param)))

\* the body of the loop over the query parameters
addQueryParam(acc, param) ==
  IF param.in # "query" THEN acc
  ELSE Extracted(setKey(acc.properties, nameKey(param),
                        [convertParamSchema(param) EXCEPT !.isQueryParam = TRUE]),
                 IF param.required THEN Append(acc.required, nameKey(param))
                                   ELSE acc.required)

\* the body of the loop over the header parameters; toLowerCase of a missing
\* name raises TypeError
addHeaderParam(acc, param) ==
  IF param.in # "header" THEN acc
  ELSE IF ~param.hasName THEN Thrown
  ELSE IF isSignatureHeader(param) THEN acc
  ELSE Extracted(setKey(acc.properties, param.name,
                        [convertParamSchema(param) EXCEPT !.isHeaderParam = TRUE]),
                 IF param.required THEN Append(acc.required, param.name)
                                   ELSE acc.required)

\* the extracted properties left as extractSchemaProperties returns them
leaveBodyParams(props) == props

\* (propSchema as any).isBodyParam = true, for every extracted property
markBodyParams(props) ==
  [j \in 1..Len(props) |->
     [key |-> props[j].key, value |-> [props[j].value EXCEPT !.isBodyParam = TRUE]]]

\* the properties of one body schema added to the input schema
addBody(acc, bodySchema, bodyRequired, sp) ==
  ByValue(LAMBDA bodyProperties :
            IF acc.thrown \/ bodyProperties.thrown THEN Thrown
            ELSE Extracted(objectAssign(acc.properties,
                                        markBodyParams(bodyProperties.properties)),
                           IF bodyRequired THEN acc.required \o bodyProperties.required
                                           ELSE acc.required),
          extractSchemaProperties(bodySchema, sp))

\* the body of the loop over the Swagger 2.0 body parameters
addBodyParam(acc, param, sp) ==
  IF param.in = "body" /\ param.hasSchema
    THEN addBody(acc, param.schema, param.required, sp)
    ELSE acc

RECURSIVE paramLoop(_, _, _, _)
\* for (const param of endpoint.parameters), one pass per location
paramLoop(acc, params, j, pass) ==
  IF acc.thrown THEN Thrown
  ELSE IF j > Len(params) THEN acc
  ELSE ByValue(LAMBDA next : paramLoop(next, params, j + 1, pass),
               CASE pass = "path" -> addPathParam(acc, params[j])
                 [] pass = "query" -> addQueryParam(acc, params[j])
                 [] OTHER -> addHeaderParam(acc, params[j]))

RECURSIVE bodyParamLoop(_, _, _, _)
\* for (const param of endpoint.parameters), the pass over Swagger 2.0 bodies
bodyParamLoop(acc, params, j, sp) ==
  IF acc.thrown THEN Thrown
  ELSE IF j > Len(params) THEN acc
  ELSE ByValue(LAMBDA next : bodyParamLoop(next, params, j + 1, sp),
               addBodyParam(acc, params[j], sp))

\* the request body of OpenAPI 3.x: requestBody.content['application/json']
addRequestBody(acc, body, sp) ==
  IF acc.thrown THEN Thrown
  ELSE IF body.present /\ body.hasContent /\ body.hasJsonSchema
    THEN addBody(acc, body.schema, body.required, sp)
    ELSE acc

\* return { type: 'object', properties, ...(required.length > 0 && { required }) }
inputSchemaOf(acc) ==
  IF acc.thrown
    THEN [thrown |-> TRUE, properties |-> <<>>, hasRequired |-> FALSE, required |-> <<>>]
    ELSE [thrown |-> FALSE,
          properties |-> acc.properties,
          hasRequired |-> Len(acc.required) > 0,
          required |-> acc.required]

generateInputSchema(endpoint, sp) ==
  LET params == endpoint.parameters
  IN ByValue(LAMBDA afterPath :
       ByValue(LAMBDA afterQuery :
         ByValue(LAMBDA afterHeader :
           ByValue(LAMBDA afterBody :
             ByValue(inputSchemaOf, bodyParamLoop(afterBody, params, 1, sp)),
             addRequestBody(afterHeader, endpoint.requestBody, sp)),
           paramLoop(afterQuery, params, 1, "header")),
         paramLoop(afterPath, params, 1, "query")),
       paramLoop(Extracted(<<>>, <<>>), params, 1, "path"))

\* no authentication (undefined)
NoAuth ==
  [thrown |-> FALSE, present |-> FALSE, type |-> "", location |-> "",
   name |-> <<>>, envVariable |-> <<>>]

\* spec.securitySchemes[schemeName] on a document without a registry raises
AuthThrown == [NoAuth EXCEPT !.thrown = TRUE]

Auth(type, location, name, envVariable) ==
  [thrown |-> FALSE, present |-> TRUE, type |-> type, location |-> location,
   name |-> name, envVariable |-> envVariable]

\* the switch of createAuthSpec on scheme.type
authOfScheme(schemeName, scheme) ==
  CASE scheme.type = "apiKey" ->
         Auth("apiKey", scheme.in,
              IF scheme.name # <<>> THEN scheme.name ELSE <<"a","p","i","k","e","y">>,
              toUpperCase(schemeName) \o <<"_","A","P","I","_","K","E","Y">>)
    [] scheme.type = "http" /\ scheme.scheme = "bearer" ->
         Auth("bearer", "", <<>>, toUpperCase(schemeName) \o <<"_","T","O","K","E","N">>)
    [] scheme.type = "http" /\ scheme.scheme = "basic" ->
         Auth("basic", "", <<>>,
              toUpperCase(schemeName) \o <<"_","C","R","E","D","E","N","T","I","A","L","S">>)
    [] scheme.type = "oauth2" ->
         Auth("oauth2", "", <<>>,
              toUpperCase(schemeName) \o <<"_","A","C","C","E","S","S","_","T","O","K","E","N">>)
    [] OTHER -> NoAuth

\* createAuthSpec: securityReq is an ordered map from scheme names to scopes
createAuthSpec(securityReq, sp) ==
  IF Len(securityReq) = 0 \/ securityReq[1].key = <<>> THEN NoAuth
  ELSE IF "securitySchemes" \notin DOMAIN sp THEN AuthThrown
  ELSE IF ~hasKey(sp.securitySchemes, securityReq[1].key) THEN NoAuth
  ELSE authOfScheme(securityReq[1].key, getKey(sp.securitySchemes, securityReq[1].key))

\* generateAuthenticationSpec asking the document's global security first
generateAuthenticationSpecGlobalFirst(endpoint, sp) ==
  IF "globalSecurity" \in DOMAIN sp /\ Len(sp.globalSecurity) > 0
    THEN createAuthSpec(sp.globalSecurity[1], sp)
  ELSE IF endpoint.hasSecurity /\ Len(endpoint.security) > 0
    THEN createAuthSpec(endpoint.security[1], sp)
  ELSE NoAuth

generateAuthenticationSpec(endpoint, sp) ==
  IF endpoint.hasSecurity /\ Len(endpoint.security) > 0
    THEN createAuthSpec(endpoint.security[1], sp)
  ELSE IF "globalSecurity" \in DOMAIN sp /\ Len(sp.globalSecurity) > 0
    THEN createAuthSpec(sp.globalSecurity[1], sp)
  ELSE NoAuth

NullTool ==
  [isNull |-> TRUE, name |-> <<>>, method |-> <<>>, path |-> <<>>,
   inputSchema |-> [properties |-> <<>>, hasRequired |-> FALSE, required |-> <<>>],
   authentication |-> NoAuth]

\* generateMcpTool: the tool (its name, method, path, input schema and
\* authentication; the description, base URL, header metadata and the fixed
\* response and error policies do not influence these), or null when a step
\* raises
generateMcpTool(endpoint, sp) ==
  LET headerThrows == \E j \in DOMAIN endpoint.parameters :
                        /\ endpoint.parameters[j].in = "header"
                        /\ ~endpoint.parameters[j].hasName
  IN ByValue2(LAMBDA inputSchema, authentication :
                IF inputSchema.thrown \/ authentication.thrown \/ headerThrows
                  THEN NullTool
                ELSE [isNull |-> FALSE,
                      name |-> generateToolName(endpoint),
                      method |-> endpoint.method,
                      path |-> endpoint.path,
                      inputSchema |-> [properties |-> inputSchema.properties,
                                       hasRequired |-> inputSchema.hasRequired,
                                       required |-> inputSchema.required],
                      authentication |-> authentication],
              generateInputSchema(endpoint, sp),
              generateAuthenticationSpec(endpoint, sp))

\* the loop body of generate giving up the tools made so far when one
\* endpoint fails
toolsAfterAbort(ts, endpoint, sp) ==
  IF isAuthenticationEndpoint(endpoint) THEN ts
  ELSE ByValue(LAMBDA tool : IF tool.isNull THEN <<>> ELSE Append(ts, tool),
               generateMcpTool(endpoint, sp))

\* the loop body of generate without the authentication test
toolsAfterNoSkip(ts, endpoint, sp) ==
  ByValue(LAMBDA tool : IF tool.isNull THEN ts ELSE Append(ts, tool),
          generateMcpTool(endpoint, sp))

\* the loop body of generate: the tool list after one endpoint
toolsAfter(ts, endpoint, sp) ==
  IF isAuthenticationEndpoint(endpoint) THEN ts
  ELSE ByValue(LAMBDA tool : IF tool.isNull THEN ts ELSE Append(ts, tool),
               generateMcpTool(endpoint, sp))

(***************************************************************************)
(* Inputs: property names, registry schemas and composition members        *)
(***************************************************************************)
MaxMembers == 2

n_id == <<"i","d">>
n_name == <<"n","a","m","e">>
n_tag == <<"t","a","g">>
n_kind == <<"k","i","n","d">>
n_note == <<"n","o","t","e">>

RefA == ComponentsPrefix \o <<"A">>
RefB == DefinitionsPrefix \o <<"B">>
RefZ == ComponentsPrefix \o <<"Z">>

\* A and B share the key name, with different definitions
SchemaA ==
  WithRequired(WithProperties(Typed("object"),
    <<Prop(n_id, Typed("integer")), Prop(n_name, Typed("string"))>>), <<n_id>>)

SchemaB ==
  WithRequired(WithProperties(EmptySchema,
    <<Prop(n_name, Typed("integer")), Prop(n_tag, Typed("string"))>>), <<n_tag, n_name>>)

SchemaC == Typed("string")

SchemaD == WithProperties(Typed("object"), <<Prop(n_kind, Typed("boolean"))>>)

\* an unresolvable reference that carries sibling keywords
SchemaZ == WithProperties(RefTo(RefZ), <<Prop(n_note, Typed("string"))>>)

ComposeRegistry == <<Prop(<<"A">>, SchemaA), Prop(<<"B">>, SchemaB)>>

ComposeSpec == [endpoints |-> <<>>, schemas |-> ComposeRegistry]

SeqsUpTo(S, n) == UNION {[1..k -> S] : k \in 0..n}

AllOfMembers == {SchemaA, SchemaB, RefTo(RefA), RefTo(RefB), SchemaZ}

OneOfMembers == {SchemaA, SchemaC, RefTo(RefB)}

AnyOfMembers == {SchemaD}

OwnSchemas ==
  {EmptySchema,
   WithRequired(WithProperties(Typed("object"), <<Prop(n_note, Typed("string"))>>), <<n_note>>)}

Absent == [has |-> FALSE, list |-> <<>>]

Lists(S) == {Absent} \cup {[has |-> TRUE, list |-> l] : l \in SeqsUpTo(S, MaxMembers)}

NonEmptyLists(S) == {l \in Lists(S) : l.has => Len(l.list) > 0}

ComposeInputs ==
  {[own EXCEPT !.hasAllOf = a.has, !.allOf = a.list,
               !.hasOneOf = o.has, !.oneOf = o.list,
               !.hasAnyOf = y.has, !.anyOf = y.list] :
     own \in OwnSchemas, a \in Lists(AllOfMembers),
     o \in Lists(OneOfMembers), y \in NonEmptyLists(AnyOfMembers)}

(***************************************************************************)
(* SpecCompose: resolveSchemaComposition applied to one schema             *)
(***************************************************************************)
InitCompose ==
  /\ inputs = <<>>
  /\ pc = "compose"
  /\ spec = ComposeSpec
  /\ schema \in ComposeInputs
  /\ out = EmptySchema
  /\ i = 0
  /\ tools = <<>>

Compose ==
  /\ pc = "compose"
  /\ out' = resolveSchemaComposition(schema, spec)
  /\ pc' = "composed"
  /\ UNCHANGED <<spec, i, tools, schema, inputs>>

NextCompose == Compose

SpecCompose == InitCompose /\ [][NextCompose]_vars

(***************************************************************************)
(* Claims about resolveSchemaComposition (checked under SpecCompose)       *)
(***************************************************************************)
propsOf(s) == IF s.hasProperties THEN s.properties ELSE <<>>

requiredOf(s) == IF s.hasRequired THEN s.required ELSE <<>>

keySet(m) == {m[j].key : j \in DOMAIN m}

\* the merge the claim describes for the members A, B of an allOf pair
isPairMerge(res, A, B) ==
  /\ Range(requiredOf(res)) = Range(requiredOf(A)) \cup Range(requiredOf(B))
  /\ res.hasProperties
  /\ keySet(res.properties) = keySet(propsOf(A)) \cup keySet(propsOf(B))
  /\ \A k \in keySet(res.properties) :
       getKey(res.properties, k) =
         IF hasKey(propsOf(B), k) THEN getKey(propsOf(B), k)
                                  ELSE getKey(propsOf(A), k)

\* C8: for every schema with allOf = [A, B] (each member inline or a $ref),
\* the resolved required set is the union of A's and B's required fields and
\* the resolved properties are A's merged with B's, B's definition winning
\* on a shared key, whichever order the members come in.
C8_AllOfPairMerge ==
  (pc = "composed" /\ schema.hasAllOf /\ Len(schema.allOf) = 2) =>
    isPairMerge(out, resolveOrSelf(schema.allOf[1], spec),
                     resolveOrSelf(schema.allOf[2], spec))

\* The same statement for the schemas whose only composition keyword is the
\* allOf pair: the merge is then what resolveSchemaComposition returns.
AllOfAlonePairMerge ==
  (pc = "composed" /\ schema.hasAllOf /\ Len(schema.allOf) = 2
     /\ ~schema.hasOneOf /\ ~schema.hasAnyOf) =>
    isPairMerge(out, resolveOrSelf(schema.allOf[1], spec),
                     resolveOrSelf(schema.allOf[2], spec))

membersContained(members, res, sp) ==
  \A j \in DOMAIN members :
    LET m == resolveOrSelf(members[j], sp)
    IN /\ keySet(propsOf(m)) \subseteq keySet(propsOf(res))
       /\ Range(requiredOf(m)) \subseteq Range(requiredOf(res))

\* C9: whenever allOf is present the resolved properties and required
\* contain those of every allOf member, and likewise for anyOf and its
\* branches, also when allOf comes together with anyOf or oneOf.
C9_CompositionUnion ==
  pc = "composed" =>
    /\ schema.hasAllOf => membersContained(schema.allOf, out, spec)
    /\ schema.hasAnyOf => membersContained(schema.anyOf, out, spec)

laterOnlyKeys(s, sp) ==
  {k \in UNION {keySet(propsOf(resolveOrSelf(s.oneOf[j], sp))) : j \in 2..Len(s.oneOf)} :
     ~hasKey(propsOf(resolveOrSelf(s.oneOf[1], sp)), k)}

\* C10 as claimed: with a non-empty oneOf the resolved properties are those
\* of the first variant, and no property found only in a later variant
\* appears.
C10_FirstVariantOnly ==
  (pc = "composed" /\ schema.hasOneOf /\ Len(schema.oneOf) > 0) =>
    /\ propsOf(out) = propsOf(resolveOrSelf(schema.oneOf[1], spec))
    /\ laterOnlyKeys(schema, spec) \cap keySet(propsOf(out)) = {}

\* what callers read of a resolved schema (the composition keywords it still
\* carries are copies of the input's)
resolvedFields(s) ==
  [ref |-> s.ref, type |-> s.type, hasProperties |-> s.hasProperties,
   properties |-> s.properties, hasRequired |-> s.hasRequired,
   required |-> s.required]

\* C10 as amended: only the first variant is consulted (dropping the later
\* variants changes nothing), and its fields are overlaid on the schema's:
\* without anyOf the resolved properties are the first variant's when it
\* declares any, otherwise the ones the schema had (its own, or with allOf
\* the allOf merge); an anyOf replaces them by the anyOf merge.
C10_FirstVariantOverlay ==
  (pc = "composed" /\ schema.hasOneOf /\ Len(schema.oneOf) > 0) =>
    LET first == resolveOrSelf(schema.oneOf[1], spec)
        noOneOf == [schema EXCEPT !.hasOneOf = FALSE, !.oneOf = <<>>]
    IN /\ resolvedFields(out) =
            resolvedFields(resolveSchemaComposition(
                             [schema EXCEPT !.oneOf = <<schema.oneOf[1]>>], spec))
       /\ (~schema.hasAnyOf /\ first.hasProperties) =>
            propsOf(out) = first.properties
       /\ (~schema.hasAnyOf /\ ~first.hasProperties) =>
            propsOf(out) = propsOf(resolveSchemaComposition(noOneOf, spec))
       /\ schema.hasAnyOf =>
            propsOf(out) = propsOf(mergeComposition(EmptySchema, schema.anyOf, spec))

\* a schema with own properties whose first variant declares none and whose
\* second variant declares some
C10_Witness ==
  /\ pc = "composed"
  /\ schema.hasOneOf /\ ~schema.hasAllOf /\ ~schema.hasAnyOf
  /\ schema.oneOf = <<SchemaC, SchemaA>>
  /\ schema.hasProperties
  /\ keySet(propsOf(out)) = {n_note}
  /\ out.type = "string"

(***************************************************************************)
(* SpecExtract: extractSchemaProperties applied to one request-body schema *)
(***************************************************************************)
MaxDepth == 3

n_owner == <<"o","w","n","e","r">>
n_home_address == <<"h","o","m","e","_","a","d","d","r","e","s","s">>
n_owner_name == <<"o","w","n","e","r","_","n","a","m","e">>
n_next == <<"n","e","x","t">>
n_meta == <<"m","e","t","a">>

RefOwner == ComponentsPrefix \o <<"O","w","n","e","r">>
RefNode == DefinitionsPrefix \o <<"N","o","d","e">>
RefProfile == ComponentsPrefix \o <<"P","r","o","f","i","l","e">>

Object(props, req) ==
  IF Len(req) > 0 THEN WithRequired(WithProperties(Typed("object"), props), req)
                  ELSE WithProperties(Typed("object"), props)

OwnerSchema ==
  Object(<<Prop(n_name, Typed("string")), Prop(n_id, Typed("integer"))>>, <<n_name>>)

\* a self-referential schema (a linked list node)
NodeSchema ==
  Object(<<Prop(n_id, Typed("integer")), Prop(n_next, RefTo(RefNode))>>, <<n_id>>)

\* a schema that is the allOf of an object schema with properties
ProfileSchema == [EmptySchema EXCEPT !.hasAllOf = TRUE, !.allOf = <<OwnerSchema>>]

ExtractRegistry ==
  <<Prop(<<"O","w","n","e","r">>, OwnerSchema), Prop(<<"N","o","d","e">>, NodeSchema)>>

ExtractSpec ==
  [endpoints |-> <<>>,
   schemas |-> ExtractRegistry \o <<Prop(<<"P","r","o","f","i","l","e">>, ProfileSchema)>>]

NamePool == {n_owner, n_home_address, n_name}

RECURSIVE Nest(_, _, _)
\* the object chain names[k] / names[k+1] / ... ending in a string leaf; each
\* object also has an integer property id, and lists names[k] as required
\* when flags[k] says so
Nest(names, flags, k) ==
  IF k > Len(names) THEN Typed("string")
  ELSE Object(<<Prop(names[k], Nest(names, flags, k + 1)), Prop(n_id, Typed("integer"))>>,
              IF flags[k] THEN <<names[k]>> ELSE <<>>)

NestedBodies ==
  UNION {{Nest(names, flags, 1) : names \in [1..d -> NamePool], flags \in [1..d -> BOOLEAN]} :
           d \in 1..MaxDepth}

SpecialBodies ==
  {\* a body field owner_name next to the object owner{name}
   Object(<<Prop(n_owner, Object(<<Prop(n_name, Typed("string"))>>, <<>>)),
            Prop(n_owner_name, Typed("integer"))>>, <<>>),
   \* an object owner_name next to the object owner{name}
   Object(<<Prop(n_owner_name, Object(<<Prop(n_id, Typed("integer"))>>, <<>>)),
            Prop(n_owner, Object(<<Prop(n_name, Typed("string"))>>, <<>>))>>, <<>>),
   \* properties given by reference, and the body itself by reference
   Object(<<Prop(n_owner, RefTo(RefOwner)), Prop(n_tag, Typed("string"))>>, <<n_owner>>),
   Object(<<Prop(n_owner, RefTo(RefZ))>>, <<>>),
   RefTo(RefOwner),
   \* a property composed with allOf, at the top level and nested
   Object(<<Prop(n_owner, [EmptySchema EXCEPT !.hasAllOf = TRUE,
                                              !.allOf = <<RefTo(RefOwner)>>])>>, <<>>),
   Object(<<Prop(n_home_address,
                 Object(<<Prop(n_owner, [Typed("object") EXCEPT !.hasAllOf = TRUE,
                                                   !.allOf = <<RefTo(RefOwner)>>])>>,
                        <<n_owner>>))>>, <<>>),
   \* a property given by reference to a composed schema, and the same
   \* schema inline
   Object(<<Prop(n_owner, RefTo(RefProfile)), Prop(n_tag, Typed("string"))>>, <<>>),
   Object(<<Prop(n_owner, ProfileSchema), Prop(n_tag, Typed("string"))>>, <<>>),
   \* a nested object that declares no properties
   Object(<<Prop(n_owner, Object(<<Prop(n_meta, WithProperties(Typed("object"), <<>>)),
                                   Prop(n_name, Typed("string"))>>, <<>>))>>, <<>>),
   \* cyclic schemas
   Object(<<Prop(n_next, RefTo(RefNode))>>, <<>>),
   RefTo(RefNode)}

ExtractInputs == NestedBodies \cup SpecialBodies

InitExtract ==
  /\ inputs = <<>>
  /\ pc = "extract"
  /\ spec = ExtractSpec
  /\ schema \in ExtractInputs
  /\ out = Extracted(<<>>, <<>>)
  /\ i = 0
  /\ tools = <<>>

Extract ==
  /\ pc = "extract"
  /\ out' = extractSchemaProperties(schema, spec)
  /\ pc' = "extracted"
  /\ UNCHANGED <<spec, i, tools, schema, inputs>>

NextExtract == Extract

SpecExtract == InitExtract /\ [][NextExtract]_vars

(***************************************************************************)
(* Claims about the flattening engine (checked under SpecExtract)          *)
(***************************************************************************)
\* the schema whose properties extractSchemaProperties walks: a $ref at the
\* root is followed first
bodyRoot(s, sp) == resolveSchemaComposition(resolveOrSelf(s, sp), sp)

isNonEmptyObject(s) == s.type = "object" /\ s.hasProperties /\ Len(s.properties) > 0

RECURSIVE leafPaths(_, _, _)
\* the fields below the object s: for each leaf its path of property names
\* and, per name on the path, whether the immediate parent lists it in
\* required.  An object with at least one property is descended into, any
\* other property is a leaf.
leafPaths(s, sp, depth) ==
  UNION {LET k == s.properties[j].key
             r == resolveOrSelf(s.properties[j].value, sp)
             listed == s.hasRequired /\ k \in Range(s.required)
         IN IF isNonEmptyObject(r) /\ depth < MaxDepth + 1
              THEN {[path |-> <<k>> \o lp.path, reqs |-> <<listed>> \o lp.reqs] :
                      lp \in leafPaths(r, sp, depth + 1)}
              ELSE {[path |-> <<k>>, reqs |-> <<listed>>]} :
           j \in DOMAIN s.properties}

\* the leaves of the flattened objects of the body in the variable schema
flattenedLeaves ==
  {lp \in leafPaths(bodyRoot(schema, spec), spec, 1) : Len(lp.path) >= 2}

flatKey(lp) == join(lp.path, Underscore)

\* C5: every body property that is an object with at least one property is
\* replaced, at every depth, by one flat property per leaf, named
\* ancestor_..._parent_child and marked isFlattened, and the output has no
\* property named after the flattened object itself.
C5_FlattenEveryObject ==
  (pc = "extracted" /\ ~out.thrown) =>
    LET root == bodyRoot(schema, spec)
    IN /\ \A lp \in flattenedLeaves :
            /\ hasKey(out.properties, flatKey(lp))
            /\ getKey(out.properties, flatKey(lp)).isFlattened
       /\ \A j \in DOMAIN root.properties :
            isNonEmptyObject(resolveOrSelf(root.properties[j].value, spec))
              => ~hasKey(out.properties, root.properties[j].key)

RECURSIVE nodePaths(_, _, _)
\* the paths of property names from the object s to every field below it,
\* references and compositions resolved on the way
nodePaths(s, sp, depth) ==
  UNION {LET k == s.properties[j].key
             r == resolveSchemaComposition(resolveOrSelf(s.properties[j].value, sp), sp)
         IN {<<k>>} \cup
            (IF r.hasProperties /\ depth < MaxDepth + 1
               THEN {<<k>> \o q : q \in nodePaths(r, sp, depth + 1)}
               ELSE {}) :
           j \in DOMAIN s.properties}

\* C6: every flattened property, at any depth and for any property names,
\* records as originalPath the original property names from the flattening
\* root to the leaf joined by '.': it is non-empty, starts with parentObject
\* and names the field of the nested body that the property stands for.
C6_OriginalPath ==
  (pc = "extracted" /\ ~out.thrown) =>
    \A j \in DOMAIN out.properties :
      LET p == out.properties[j].value
      IN p.isFlattened =>
           /\ p.originalPath # <<>>
           /\ split(p.originalPath, ".")[1] = p.parentObject
           /\ \E q \in nodePaths(bodyRoot(schema, spec), spec, 1) :
                /\ join(q, Underscore) = out.properties[j].key
                /\ join(q, Dot) = p.originalPath

\* C7: a flattened descendant is in the returned required list only if it
\* and every ancestor object on its path were listed in required by their
\* immediate parent schema.
C7_RequiredTransitive ==
  (pc = "extracted" /\ ~out.thrown) =>
    \A lp \in flattenedLeaves :
      flatKey(lp) \in Range(out.required) => \A j \in DOMAIN lp.reqs : lp.reqs[j]

\* C12: extractSchemaProperties and flattenNestedObject make only finitely
\* many recursive calls on every registry, cyclic ones included: the walk of
\* a body ends without running out of call stack.
C12_CyclicTerminates ==
  pc = "extracted" => ~out.thrown

(***************************************************************************)
(* SpecGenerate: generate(spec), one loop iteration per step               *)
(***************************************************************************)
MaxEndpoints == 2

GET == <<"G","E","T">>
POST == <<"P","O","S","T">>
PUT == <<"P","U","T">>
DELETE == <<"D","E","L","E","T","E">>

p_pets == <<"/","p","e","t","s">>
p_pets_id == <<"/","p","e","t","s","/","{","i","d","}">>
p_auth_login == <<"/","a","u","t","h","/","l","o","g","i","n">>
p_authors == <<"/","a","u","t","h","o","r","s">>
p_nodes == <<"/","n","o","d","e","s">>
p_reports == <<"/","r","e","p","o","r","t","s">>
p_store_items ==
  <<"/","p","e","t","-","s","t","o","r","e","/","{","i","d","}","/","i","t","e","m","s",".","v","2">>

n_limit == <<"l","i","m","i","t">>
n_request_id == <<"X","-","R","e","q","u","e","s","t","-","I","d">>
n_signature == <<"X","-","S","i","g","n","a","t","u","r","e">>

Param(name, location, required, s) ==
  [name |-> name, hasName |-> TRUE, in |-> location, required |-> required,
   hasSchema |-> TRUE, schema |-> s]

\* a parameter object without a name
NamelessParam(location) ==
  [name |-> <<>>, hasName |-> FALSE, in |-> location, required |-> FALSE,
   hasSchema |-> TRUE, schema |-> Typed("string")]

NoBody ==
  [present |-> FALSE, required |-> FALSE, hasContent |-> FALSE,
   hasJsonSchema |-> FALSE, schema |-> EmptySchema]

JsonBody(required, s) ==
  [present |-> TRUE, required |-> required, hasContent |-> TRUE,
   hasJsonSchema |-> TRUE, schema |-> s]

Endpoint(method, path, operationId, description, parameters, requestBody) ==
  [path |-> path, method |-> method, operationId |-> operationId,
   summary |-> <<>>, description |-> description,
   parameters |-> parameters, requestBody |-> requestBody,
   hasResponses |-> TRUE, hasSecurity |-> FALSE, security |-> <<>>]

PetBody ==
  Object(<<Prop(n_id, Typed("integer")), Prop(n_name, Typed("string"))>>, <<n_name>>)

EndpointPool ==
  {\* GET /pets/{id}, operationId getPetById, required path parameter id
   Endpoint(GET, p_pets_id, <<"g","e","t","P","e","t","B","y","I","d">>, <<>>,
            <<Param(n_id, "path", TRUE, Typed("string"))>>, NoBody),
   \* the same operation without an operationId
   Endpoint(GET, p_pets_id, <<>>, <<>>,
            <<Param(n_id, "path", TRUE, Typed("string"))>>, NoBody),
   \* GET /pets with an optional and a required query parameter
   Endpoint(GET, p_pets, <<>>, <<"L","i","s","t"," ","p","e","t","s">>,
            <<Param(n_limit, "query", FALSE, Typed("integer")),
              Param(n_tag, "query", TRUE, Typed("string"))>>, NoBody),
   \* POST /pets, operationId getPets, headers and a Swagger 2.0 body
   Endpoint(POST, p_pets, <<"g","e","t","P","e","t","s">>, <<>>,
            <<Param(n_request_id, "header", TRUE, Typed("string")),
              Param(n_signature, "header", TRUE, Typed("string")),
              Param(<<"b","o","d","y">>, "body", TRUE, RefTo(RefOwner))>>, NoBody),
   \* PUT /pets/{id}: the path parameter is not marked required, and the
   \* required body has a field id as well
   Endpoint(PUT, p_pets_id, <<>>, <<>>,
            <<Param(n_id, "path", FALSE, Typed("string"))>>, JsonBody(TRUE, PetBody)),
   \* DELETE /pets/{id} with a header parameter that has no name
   Endpoint(DELETE, p_pets_id, <<"d","e","l","e","t","e","P","e","t">>, <<>>,
            <<Param(n_id, "path", TRUE, Typed("string")), NamelessParam("header")>>, NoBody),
   \* GET /pet-store/{id}/items.v2
   Endpoint(GET, p_store_items, <<>>, <<>>,
            <<Param(n_id, "path", TRUE, Typed("integer")),
              Param(n_id, "query", FALSE, Typed("integer"))>>, NoBody),
   \* POST /nodes with a self-referential body schema
   Endpoint(POST, p_nodes, <<"c","r","e","a","t","e","N","o","d","e">>, <<>>,
            <<>>, JsonBody(TRUE, RefTo(RefNode))),
   \* authentication endpoints: by path, by operationId, by description
   Endpoint(POST, p_auth_login, <<>>, <<>>, <<>>, JsonBody(TRUE, PetBody)),
   Endpoint(GET, p_authors, <<"l","i","s","t","A","u","t","h","o","r","s">>, <<>>,
            <<>>, NoBody),
   Endpoint(GET, p_reports, <<>>, <<"L","o","g","i","n"," ","h","i","s","t","o","r","y">>,
            <<>>, NoBody)}

\* one endpoint per method and path, and no operationId used twice
distinctOperations(eps) ==
  \A a, b \in DOMAIN eps :
    a # b => /\ <<eps[a].method, eps[a].path>> # <<eps[b].method, eps[b].path>>
             /\ eps[a].operationId # <<>> => eps[a].operationId # eps[b].operationId

Documents == {eps \in SeqsUpTo(EndpointPool, MaxEndpoints) : distinctOperations(eps)}

InitGenerate ==
  /\ inputs = <<>>
  /\ pc = "generate"
  /\ spec \in {[endpoints |-> eps, schemas |-> ExtractRegistry] : eps \in Documents}
  /\ i = 1
  /\ tools = <<>>
  /\ schema = EmptySchema
  /\ out = EmptySchema

\* if (isAuthenticationEndpoint(endpoint)) continue
GenerateSkip ==
  /\ pc = "generate" /\ i <= Len(spec.endpoints)
  /\ isAuthenticationEndpoint(spec.endpoints[i])
  /\ tools' = toolsAfter(tools, spec.endpoints[i], spec)
  /\ i' = i + 1
  /\ UNCHANGED <<pc, spec, schema, out, inputs>>

\* const tool = await generateMcpTool(endpoint, spec); tools.push(tool)
GeneratePush ==
  /\ pc = "generate" /\ i <= Len(spec.endpoints)
  /\ ~isAuthenticationEndpoint(spec.endpoints[i])
  /\ ~generateMcpTool(spec.endpoints[i], spec).isNull
  /\ tools' = toolsAfter(tools, spec.endpoints[i], spec)
  /\ i' = i + 1
  /\ UNCHANGED <<pc, spec, schema, out, inputs>>

\* generateMcpTool caught an exception and returned null
GenerateDrop ==
  /\ pc = "generate" /\ i <= Len(spec.endpoints)
  /\ ~isAuthenticationEndpoint(spec.endpoints[i])
  /\ generateMcpTool(spec.endpoints[i], spec).isNull
  /\ tools' = toolsAfter(tools, spec.endpoints[i], spec)
  /\ i' = i + 1
  /\ UNCHANGED <<pc, spec, schema, out, inputs>>

\* return tools
GenerateReturn ==
  /\ pc = "generate" /\ i > Len(spec.endpoints)
  /\ pc' = "returned"
  /\ UNCHANGED <<spec, i, tools, schema, out, inputs>>

NextGenerate == GenerateSkip \/ GeneratePush \/ GenerateDrop \/ GenerateReturn

SpecGenerate == InitGenerate /\ [][NextGenerate]_vars

(***************************************************************************)
(* Claims about generate (checked under SpecGenerate)                      *)
(***************************************************************************)
\* the endpoints the loop of generate has gone through
processed == SubSeq(spec.endpoints, 1, i - 1)

notAuthentication(endpoint) == ~isAuthenticationEndpoint(endpoint)

\* a tool and the endpoint it was made from
isToolOf(tool, endpoint) == tool.method = endpoint.method /\ tool.path = endpoint.path

\* C1 as claimed: generate returns exactly one tool for every endpoint that
\* is not recognised as an authentication endpoint and none for one that is,
\* in the order of spec.endpoints.
C1_OneToolPerEndpoint ==
  pc = "returned" =>
    LET kept == SelectSeq(spec.endpoints, notAuthentication)
    IN /\ Len(tools) = Len(kept)
       /\ \A j \in DOMAIN tools : j <= Len(kept) => isToolOf(tools[j], kept[j])

synthesized(endpoint) ==
  notAuthentication(endpoint) /\ ~generateMcpTool(endpoint, spec).isNull

\* C1 as amended: the tools are, in the order of spec.endpoints, exactly one
\* tool for every endpoint that is not recognised as an authentication
\* endpoint and whose synthesis completes; an authentication endpoint (by
\* path, operationId or description) and an endpoint whose synthesis raises
\* contribute none.
C1_OneToolPerSynthesizedEndpoint ==
  LET kept == SelectSeq(processed, synthesized)
  IN /\ Len(tools) = Len(kept)
     /\ \A j \in DOMAIN tools : tools[j] = generateMcpTool(kept[j], spec)
     /\ \A j \in DOMAIN tools : isToolOf(tools[j], kept[j])
     /\ \A j \in DOMAIN tools : tools[j].path \notin {p_auth_login, p_authors, p_reports}
     /\ pc = "returned" => i = Len(spec.endpoints) + 1

\* POST /auth/login followed by GET /pets/{id}: one tool, for the second
C1_Witness ==
  /\ pc = "returned"
  /\ Len(spec.endpoints) = 2
  /\ spec.endpoints[1].path = p_auth_login
  /\ spec.endpoints[2].path = p_pets_id /\ spec.endpoints[2].method = GET
  /\ Len(tools) = 1
  /\ isToolOf(tools[1], spec.endpoints[2])

\* the number of upper-case letters among the first k characters
upperBefore(id, k) == Cardinality({h \in 1..k : isUpper(id[h])})

\* name is id with every upper-case letter replaced by '_' and its lower-case
\* form, without a leading '_'
isSnakeOf(name, id) ==
  LET lead == IF isUpper(id[1]) THEN 1 ELSE 0
      pos(k) == k + upperBefore(id, k) - lead
  IN /\ Len(name) = Len(id) + upperBefore(id, Len(id)) - lead
     /\ \A k \in DOMAIN id :
          /\ name[pos(k)] = toLowerChar(id[k])
          /\ (isUpper(id[k]) /\ pos(k) > 1) => name[pos(k) - 1] = "_"

\* the segments of a path as pairs of neighbouring cut positions
segmentsOf(path) ==
  LET cuts == {0, Len(path) + 1} \cup {k \in DOMAIN path : path[k] = "/"}
  IN {c \in cuts \X cuts :
        c[1] < c[2] /\ \A k \in cuts : ~(c[1] < k /\ k < c[2])}

\* the non-empty segments that are not a {parameter}
literalSegmentsOf(path) ==
  {c \in segmentsOf(path) : c[2] > c[1] + 1 /\ path[c[1] + 1] # "{"}

\* rest is the alphanumeric characters of the literal segments of path, in
\* order, with one '_' between two segments
isPathNameOf(rest, path) ==
  LET lit == literalSegmentsOf(path)
      kept == {k \in DOMAIN path :
                 isAlnum(path[k]) /\ \E c \in lit : c[1] < k /\ k < c[2]}
      pos(k) == Cardinality({h \in kept : h <= k})
                  + Cardinality({c \in lit : c[1] < k}) - 1
  IN /\ Len(rest) = Cardinality(kept) + (IF lit = {} THEN 0 ELSE Cardinality(lit) - 1)
     /\ \A k \in kept : rest[pos(k)] = path[k]
     /\ \A j \in DOMAIN rest : j \notin {pos(k) : k \in kept} => rest[j] = "_"

isNameOf(name, endpoint) ==
  IF endpoint.operationId # <<>>
    THEN isSnakeOf(name, endpoint.operationId)
    ELSE LET method == toLowerCase(endpoint.method)
         IN /\ Len(name) > Len(method)
            /\ SubSeq(name, 1, Len(method) + 1) = method \o <<"_">>
            /\ isPathNameOf(SubSeq(name, Len(method) + 2, Len(name)), endpoint.path)

C3_UniqueNames ==
  \A a, b \in DOMAIN tools : a # b => tools[a].name # tools[b].name

pathParametersOf(endpoint) ==
  {endpoint.parameters[j] : j \in {h \in DOMAIN endpoint.parameters :
                                     endpoint.parameters[h].in = "path"}}

queryParametersOf(endpoint) ==
  {endpoint.parameters[j] : j \in {h \in DOMAIN endpoint.parameters :
                                     endpoint.parameters[h].in = "query"}}

\* C4: in every synthesized inputSchema each path parameter is a property
\* with isPathParam set and is listed in required whatever its own required
\* flag, a query parameter is listed in required only if it is marked
\* required, and for an endpoint whose only input is the path parameter id
\* required is exactly [id].
C4_PathAndQueryRequired ==
  \A j \in DOMAIN tools : \A k \in DOMAIN processed :
    isToolOf(tools[j], processed[k]) =>
      LET endpoint == processed[k]
          inputSchema == tools[j].inputSchema
      IN /\ \A param \in pathParametersOf(endpoint) :
              /\ hasKey(inputSchema.properties, param.name)
              /\ getKey(inputSchema.properties, param.name).isPathParam
              /\ param.name \in Range(inputSchema.required)
         /\ \A param \in queryParametersOf(endpoint) :
              param.name \in Range(inputSchema.required) => param.required
         /\ (/\ Len(endpoint.parameters) = 1
             /\ endpoint.parameters[1].in = "path"
             /\ endpoint.parameters[1].name = n_id
             /\ ~endpoint.requestBody.present) =>
              inputSchema.required = <<n_id>>

\* the endpoints gone through whose synthesis failed
failed == {k \in DOMAIN processed :
             /\ notAuthentication(processed[k])
             /\ generateMcpTool(processed[k], spec).isNull}

\* the positions in tools of the tools made from the k-th endpoint
toolsOf(k) == {j \in DOMAIN tools : isToolOf(tools[j], processed[k])}

\* C13: an endpoint whose synthesis fails is the only one dropped: every
\* other endpoint that is not an authentication endpoint and does not fail
\* itself still has its tool in the list, in the order of spec.endpoints,
\* and generate goes through all endpoints and returns.
C13_FailureDropsOnlyThatEndpoint ==
  failed # {} =>
    /\ \A k \in failed : toolsOf(k) = {}
    /\ \A k \in DOMAIN processed \ failed :
         notAuthentication(processed[k]) =>
           /\ Cardinality(toolsOf(k)) = 1
           /\ \A j \in toolsOf(k) : tools[j] = generateMcpTool(processed[k], spec)
    /\ \A a, b \in DOMAIN processed \ failed :
         a < b => \A ja \in toolsOf(a), jb \in toolsOf(b) : ja < jb
    /\ pc = "returned" => Len(processed) = Len(spec.endpoints)

\* DELETE /pets/{id} with the nameless header fails, GET /pets after it keeps
\* its tool
C13_Witness ==
  /\ pc = "returned"
  /\ Len(spec.endpoints) = 2
  /\ failed = {1}
  /\ spec.endpoints[1].method = DELETE
  /\ spec.endpoints[2].path = p_pets /\ spec.endpoints[2].method = GET
  /\ Len(tools) = 1
  /\ isToolOf(tools[1], spec.endpoints[2])

(***************************************************************************)
(* SpecResolve: resolveSchemaReference applied to one $ref, and generate   *)
(* applied to an endpoint whose body has a property with that $ref         *)
(***************************************************************************)
RefPrefixes ==
  {ComponentsPrefix, DefinitionsPrefix, <<>>,
   <<"#","/","p","a","r","a","m","e","t","e","r","s","/">>,
   <<"#","/","c","o","m","p","o","n","e","n","t","s","/","s","c","h","e","m","a","s">>,
   <<"x">> \o DefinitionsPrefix}

RefNames ==
  {<<"O","w","n","e","r">>, <<"N","o","d","e">>, <<"Z">>, <<>>,
   <<"o","w","n","e","r">>, <<"O","w","n","e","r","/","n","a","m","e">>}

RefPool == {prefix \o name : prefix \in RefPrefixes, name \in RefNames}

\* POST /pets whose required body has the property owner given by $ref
RefEndpoint(ref) ==
  Endpoint(POST, p_pets, <<>>, <<>>, <<>>,
           JsonBody(TRUE, Object(<<Prop(n_owner, RefTo(ref)),
                                   Prop(n_tag, Typed("string"))>>, <<>>)))

\* documents with the full registry, one schema, none, and no schemas field
ResolveSpecs(ref) ==
  {[endpoints |-> <<RefEndpoint(ref)>>, schemas |-> ExtractRegistry],
   [endpoints |-> <<RefEndpoint(ref)>>, schemas |-> SubSeq(ExtractRegistry, 1, 1)],
   [endpoints |-> <<RefEndpoint(ref)>>, schemas |-> <<>>],
   [endpoints |-> <<RefEndpoint(ref)>>]}

InitResolve ==
  /\ inputs = <<>>
  /\ pc = "resolve"
  /\ \E ref \in RefPool :
       /\ schema = RefTo(ref)
       /\ spec \in ResolveSpecs(ref)
  /\ i = 1
  /\ tools = <<>>
  /\ out = NullSchema

\* resolveSchemaReference(ref, spec)
Resolve ==
  /\ pc = "resolve"
  /\ out' = resolveSchemaReference(schema.ref, spec)
  /\ pc' = "resolved"
  /\ UNCHANGED <<spec, i, tools, schema, inputs>>

\* generate(spec) for the document's one endpoint
Synthesize ==
  /\ pc = "resolved"
  /\ tools' = toolsAfter(tools, spec.endpoints[i], spec)
  /\ i' = i + 1
  /\ pc' = "returned"
  /\ UNCHANGED <<spec, schema, out, inputs>>

NextResolve == Resolve \/ Synthesize

SpecResolve == InitResolve /\ [][NextResolve]_vars

(***************************************************************************)
(* Claims about resolveSchemaReference (checked under SpecResolve)         *)
(***************************************************************************)
\* the registry entries a reference names: a standard prefix followed by
\* the entry's key
namedBy(ref, sp) ==
  IF "schemas" \notin DOMAIN sp THEN {}
  ELSE {sp.schemas[j] : j \in {h \in DOMAIN sp.schemas :
                                 \/ ref = ComponentsPrefix \o sp.schemas[h].key
                                 \/ ref = DefinitionsPrefix \o sp.schemas[h].key}}

\* C11: resolveSchemaReference returns, without raising, the registry schema
\* named by the reference after its standard prefix, and an absent result
\* when the name is not in the registry or the prefix is unknown; a body
\* property whose $ref is dangling becomes a string-typed property that is
\* not flattened, and the endpoint's tool is still produced.
C11_DanglingReference ==
  pc # "resolve" =>
    /\ \A e \in namedBy(schema.ref, spec) : out = [found |-> TRUE, schema |-> e.value]
    /\ namedBy(schema.ref, spec) = {} => out = NullSchema
    /\ (pc = "returned" /\ ~out.found) =>
         /\ Len(tools) = 1
         /\ isToolOf(tools[1], spec.endpoints[1])
         /\ keysOf(tools[1].inputSchema.properties) = <<n_owner, n_tag>>
         /\ getKey(tools[1].inputSchema.properties, n_owner).type = "string"
         /\ ~getKey(tools[1].inputSchema.properties, n_owner).isFlattened
         /\ getKey(tools[1].inputSchema.properties, n_owner).isBodyParam

\* the property owner refers to #/components/schemas/Z, which no registry has
C11_Witness ==
  /\ pc = "returned"
  /\ schema.ref = ComponentsPrefix \o <<"Z">>
  /\ "schemas" \in DOMAIN spec /\ Len(spec.schemas) = 2
  /\ ~out.found
  /\ Len(tools) = 1
  /\ getKey(tools[1].inputSchema.properties, n_owner).type = "string"

(***************************************************************************)
(* The normalizer: parse and convertToInternalFormat (src/core/parser.ts). *)
(* A source document is a record; paths and a path item are ordered maps   *)
(* (Object.entries order), and a null path item or operation is a record   *)
(* with isNull set.                                                        *)
(***************************************************************************)
validMethods ==
  <<<<"g","e","t">>, <<"p","o","s","t">>, <<"p","u","t">>,
    <<"d","e","l","e","t","e">>, <<"p","a","t","c","h">>,
    <<"h","e","a","d">>, <<"o","p","t","i","o","n","s">>>>

isValidHttpMethod(method) == toLowerCase(method) \in Range(validMethods)

\* the entries of a path item whose key passes isValidHttpMethod
methodEntries(pathItem) ==
  SelectSeq(pathItem.entries, LAMBDA en : isValidHttpMethod(en.key))

\* const endpoint: ApiEndpoint = {path, method: method.toUpperCase(), ...}
endpointOf(path, method, operation) ==
  [path |-> path, method |-> toUpperCase(method),
   operationId |-> operation.operationId,
   summary |-> operation.summary, description |-> operation.description,
   parameters |-> operation.parameters, requestBody |-> operation.requestBody,
   hasResponses |-> operation.hasResponses,
   hasSecurity |-> operation.hasSecurity, security |-> operation.security]

\* Object.entries(pathItem) of a null path item and operation.operationId of
\* a null operation raise TypeError
pathItemThrows(pathItem) ==
  \/ pathItem.isNull
  \/ \E j \in DOMAIN methodEntries(pathItem) : methodEntries(pathItem)[j].value.isNull

\* the inner loop of convertToInternalFormat over one path item
pathItemEndpoints(path, pathItem) ==
  ByValue(LAMBDA es : [j \in 1..Len(es) |-> endpointOf(path, es[j].key, es[j].value)],
          methodEntries(pathItem))

\* the outer loop of convertToInternalFormat, from the k-th path on
RECURSIVE pathsEndpoints(_, _)
pathsEndpoints(paths, k) ==
  IF k > Len(paths) THEN <<>>
  ELSE pathItemEndpoints(paths[k].key, paths[k].value) \o pathsEndpoints(paths, k + 1)

\* spec.components?.schemas || spec.definitions || {}
schemasOf(doc) ==
  IF doc.hasComponentsSchemas THEN doc.componentsSchemas
  ELSE IF doc.hasDefinitions THEN doc.definitions
  ELSE <<>>

\* spec.components?.securitySchemes || spec.securityDefinitions || {}
securitySchemesOf(doc) ==
  IF doc.hasComponentsSecuritySchemes THEN doc.componentsSecuritySchemes
  ELSE IF doc.hasSecurityDefinitions THEN doc.securityDefinitions
  ELSE <<>>

ParseError == [thrown |-> TRUE]

\* convertToInternalFormat inside the try block of parse: the internal
\* document, or the SwaggerParseError that wraps any exception
parse(doc) ==
  IF ~doc.hasPaths THEN ParseError
  ELSE IF \E k \in DOMAIN doc.paths : pathItemThrows(doc.paths[k].value) THEN ParseError
  ELSE LET internal == [info |-> doc.info,
                        endpoints |-> pathsEndpoints(doc.paths, 1),
                        schemas |-> schemasOf(doc),
                        securitySchemes |-> securitySchemesOf(doc)]
       IN [thrown |-> FALSE,
           spec |-> IF doc.hasSecurity
                    THEN internal @@ [globalSecurity |-> doc.security]
                    ELSE internal]

(***************************************************************************)
(* SpecParse: parse applied to one source document                         *)
(***************************************************************************)
MaxPaths == 2

MaxKeys == 2

k_get == <<"g","e","t">>
k_GET == <<"G","E","T">>
k_post == <<"p","o","s","t">>
k_parameters == <<"p","a","r","a","m","e","t","e","r","s">>
k_summary == <<"s","u","m","m","a","r","y">>

Operation(operationId, parameters, requestBody) ==
  [isNull |-> FALSE, operationId |-> operationId, summary |-> <<>>,
   description |-> <<>>, parameters |-> parameters, requestBody |-> requestBody,
   hasResponses |-> TRUE, hasSecurity |-> FALSE, security |-> <<>>]

NullOperation == [isNull |-> TRUE]

\* the value of a path-level key such as parameters or summary
PathLevelValue == [isNull |-> FALSE]

PathItem(entries) == [isNull |-> FALSE, entries |-> entries]

NullPathItem == [isNull |-> TRUE, entries |-> <<>>]

Info(title) == [present |-> TRUE, title |-> title, hasVersion |-> TRUE]

t_petstore == <<"P","e","t","s","t","o","r","e">>

\* a Swagger 2.0 document: swagger and definitions, no openapi, servers or
\* components
Document(info, paths) ==
  [hasOpenapi |-> FALSE, hasSwagger |-> TRUE, info |-> info, servers |-> <<>>,
   hasPaths |-> TRUE, paths |-> paths,
   hasComponentsSchemas |-> FALSE, componentsSchemas |-> <<>>,
   hasDefinitions |-> TRUE, definitions |-> ExtractRegistry,
   hasComponentsSecuritySchemes |-> FALSE, componentsSecuritySchemes |-> <<>>,
   hasSecurityDefinitions |-> FALSE, securityDefinitions |-> <<>>,
   hasSecurity |-> FALSE, security |-> <<>>]

ListOperation == Operation(<<>>, <<>>, NoBody)

CreateOperation == Operation(<<>>, <<>>, JsonBody(TRUE, PetBody))

PathItemEntries ==
  {Prop(k_get, ListOperation), Prop(k_get, NullOperation),
   Prop(k_GET, ListOperation), Prop(k_GET, NullOperation),
   Prop(k_post, CreateOperation), Prop(k_post, NullOperation),
   Prop(k_parameters, PathLevelValue), Prop(k_summary, PathLevelValue)}

distinctKeys(m) == \A a, b \in DOMAIN m : a # b => m[a].key # m[b].key

PathItems ==
  {PathItem(es) : es \in {m \in SeqsUpTo(PathItemEntries, MaxKeys) : distinctKeys(m)}}
    \cup {NullPathItem}

PathsPool ==
  {m \in SeqsUpTo({Prop(path, item) : path \in {p_pets, p_pets_id}, item \in PathItems},
                  MaxPaths) : distinctKeys(m)}

ParseDocuments ==
  {Document(Info(t_petstore), paths) : paths \in PathsPool}
    \cup {[Document(Info(t_petstore), <<>>) EXCEPT !.hasPaths = FALSE]}

InitParse ==
  /\ inputs \in {<<doc>> : doc \in ParseDocuments}
  /\ pc = "parse"
  /\ spec = [endpoints |-> <<>>, schemas |-> <<>>]
  /\ i = 1
  /\ tools = <<>>
  /\ schema = EmptySchema
  /\ out = EmptySchema

\* return convertToInternalFormat(spec)
ParseReturn ==
  /\ pc = "parse"
  /\ ~parse(inputs[1]).thrown
  /\ spec' = parse(inputs[1]).spec
  /\ pc' = "parsed"
  /\ UNCHANGED <<i, tools, schema, out, inputs>>

\* throw new SwaggerParseError(...)
ParseThrow ==
  /\ pc = "parse"
  /\ parse(inputs[1]).thrown
  /\ pc' = "ParseError"
  /\ UNCHANGED <<spec, i, tools, schema, out, inputs>>

NextParse == ParseReturn \/ ParseThrow

SpecParse == InitParse /\ [][NextParse]_vars

\* the (path, key) pairs of a document whose key names one of the seven HTTP
\* methods, in any letter case
methodKeysOf(doc) ==
  UNION {{<<doc.paths[k].key, doc.paths[k].value.entries[j].key>> :
            j \in {n \in DOMAIN doc.paths[k].value.entries :
                     \E m \in DOMAIN validMethods :
                       toLowerCase(doc.paths[k].value.entries[n].key) = validMethods[m]}} :
         k \in DOMAIN doc.paths}

\* C17: the endpoint list of a parsed document has one entry for each
\* path-item key that names one of the seven HTTP methods, none for any other
\* key, and no two of its endpoints have the same method and path.
C17_OneEndpointPerMethodAndPath ==
  pc = "parsed" =>
    /\ Len(spec.endpoints) = Cardinality(methodKeysOf(inputs[1]))
    /\ \A j \in DOMAIN spec.endpoints :
         \E pk \in methodKeysOf(inputs[1]) :
           /\ pk[1] = spec.endpoints[j].path
           /\ toUpperCase(pk[2]) = spec.endpoints[j].method
    /\ \A a, b \in DOMAIN spec.endpoints :
         a # b => <<spec.endpoints[a].method, spec.endpoints[a].path>>
                    # <<spec.endpoints[b].method, spec.endpoints[b].path>>

\* C18: parse raises ParseError only for a document without a paths object;
\* a document whose paths object has a null path item or a null operation is
\* parsed, and its endpoint list has every operation that is not null.
C18_MalformedOperationSkipped ==
  /\ pc = "ParseError" => ~inputs[1].hasPaths
  /\ pc = "parsed" =>
       \A k \in DOMAIN inputs[1].paths :
         \A j \in DOMAIN inputs[1].paths[k].value.entries :
           LET en == inputs[1].paths[k].value.entries[j]
           IN (isValidHttpMethod(en.key) /\ ~en.value.isNull) =>
                \E e \in DOMAIN spec.endpoints :
                  /\ spec.endpoints[e].path = inputs[1].paths[k].key
                  /\ spec.endpoints[e].method = toUpperCase(en.key)

(***************************************************************************)
(* generateBatchServer (src/types/index.ts) with validateParsedSpec        *)
(* (src/core/validator.ts), generate and generateServerCode                *)
(* (src/core/generator.ts); options.enhanceDescriptions is not set         *)
(***************************************************************************)
RECURSIVE generateFrom(_, _, _)
\* the loop of generate from the k-th endpoint on, ts being the tools so far
generateFrom(ts, sp, k) ==
  IF k > Len(sp.endpoints) THEN ts
  ELSE ByValue(LAMBDA next : generateFrom(next, sp, k + 1),
               toolsAfter(ts, sp.endpoints[k], sp))

\* generate with a tool list that outlives the call: the tools of an earlier
\* run stay in it
generateKeepingTools(sp) == generateFrom(tools, sp, 1)

\* const tools: McpToolSpec[] = []; for (...) {...}; return tools
generate(sp) == generateFrom(<<>>, sp, 1)

\* the messages validateParsedSpec pushes for one endpoint
endpointErrors(endpoint) ==
  (IF endpoint.path = <<>> THEN <<"Endpoint missing path">> ELSE <<>>)
    \o (IF endpoint.method = <<>> THEN <<"Endpoint missing method">> ELSE <<>>)
    \o (IF ~endpoint.hasResponses THEN <<"Missing responses for">> ELSE <<>>)

RECURSIVE endpointsErrors(_, _)
endpointsErrors(endpoints, k) ==
  IF k > Len(endpoints) THEN <<>>
  ELSE endpointErrors(endpoints[k]) \o endpointsErrors(endpoints, k + 1)

\* validateParsedSpec: nothing in its try block can raise on a parsed document
validateParsedSpec(sp) ==
  LET infoErrors ==
        IF ~sp.info.present THEN <<"Missing required field: info">>
        ELSE (IF sp.info.title = <<>> THEN <<"Missing required field: info.title">> ELSE <<>>)
               \o (IF ~sp.info.hasVersion
                     THEN <<"Missing required field: info.version">> ELSE <<>>)
      endpointPart ==
        IF Len(sp.endpoints) = 0 THEN <<"No endpoints defined in specification">>
        ELSE endpointsErrors(sp.endpoints, 1)
  IN ByValue(LAMBDA errors : [isValid |-> Len(errors) = 0, errors |-> errors],
             infoErrors \o endpointPart)

RECURSIVE writeToolFiles(_, _, _)
\* generateServerCode: FileUtils.writeFile(`${outputPath}/src/tools/${tool.name}.ts`)
\* for each tool, a later write to the same file replacing the earlier one
writeToolFiles(files, ts, k) ==
  IF k > Len(ts) THEN files
  ELSE ByValue(LAMBDA next : writeToolFiles(next, ts, k + 1),
               setKey(files, ts[k].name, ts[k]))

(***************************************************************************)
(* SpecBatch: generateBatchServer applied to a list of source documents    *)
(***************************************************************************)
MaxInputs == 2

t_blog == <<"B","l","o","g">>

MissingInfo == [present |-> FALSE, title |-> <<>>, hasVersion |-> FALSE]

BatchDocuments ==
  {\* GET /pets and POST /pets
   Document(Info(t_petstore),
            <<Prop(p_pets, PathItem(<<Prop(k_get, ListOperation),
                                      Prop(k_post, CreateOperation)>>))>>),
   \* another API with a GET /pets of its own, taking a query parameter
   Document(Info(t_blog),
            <<Prop(p_pets,
                   PathItem(<<Prop(k_get,
                                   Operation(<<>>,
                                             <<Param(n_tag, "query", FALSE, Typed("string"))>>,
                                             NoBody))>>))>>),
   \* GET /pets/{id} without responses: the validation report has an error
   Document(Info(t_blog),
            <<Prop(p_pets_id,
                   PathItem(<<Prop(k_get,
                                   [Operation(<<"g","e","t","P","e","t","B","y","I","d">>,
                                              <<Param(n_id, "path", TRUE, Typed("string"))>>,
                                              NoBody) EXCEPT !.hasResponses = FALSE])>>))>>),
   \* no title and no endpoint
   Document(Info(<<>>), <<>>),
   \* no info object
   Document(MissingInfo, <<Prop(p_pets, PathItem(<<Prop(k_get, ListOperation)>>))>>),
   \* a null operation
   Document(Info(t_petstore),
            <<Prop(p_pets, PathItem(<<Prop(k_get, NullOperation),
                                      Prop(k_post, CreateOperation)>>))>>),
   \* no paths object
   [Document(Info(t_petstore), <<>>) EXCEPT !.hasPaths = FALSE]}

NoOutput == [warnings |-> <<>>, served |-> <<>>, files |-> <<>>]

InitBatch ==
  /\ inputs \in SeqsUpTo(BatchDocuments, MaxInputs)
  /\ pc = "batch"
  /\ spec = [endpoints |-> <<>>, schemas |-> <<>>]
  /\ i = 1
  /\ tools = <<>>
  /\ schema = EmptySchema
  /\ out = NoOutput

\* const spec = await parse(input) raises SwaggerParseError: the promise of
\* generateBatchServer is rejected
BatchParseError ==
  /\ pc = "batch" /\ i <= Len(inputs)
  /\ parse(inputs[i]).thrown
  /\ pc' = "rejected"
  /\ UNCHANGED <<spec, i, tools, schema, out, inputs>>

\* console.log(`... ${spec.info.title}`) raises TypeError when info is undefined
BatchTitleError ==
  /\ pc = "batch" /\ i <= Len(inputs)
  /\ ~parse(inputs[i]).thrown
  /\ ~parse(inputs[i]).spec.info.present
  /\ spec' = parse(inputs[i]).spec
  /\ pc' = "rejected"
  /\ UNCHANGED <<i, tools, schema, out, inputs>>

\* one turn of the loop for a document whose report is not valid:
\* console.warn, then generate and allMcpTools.push(...mcpTools)
BatchWarn ==
  /\ pc = "batch" /\ i <= Len(inputs)
  /\ ~parse(inputs[i]).thrown
  /\ parse(inputs[i]).spec.info.present
  /\ ~validateParsedSpec(parse(inputs[i]).spec).isValid
  /\ spec' = parse(inputs[i]).spec
  /\ out' = [out EXCEPT !.warnings =
               Append(@, [input |-> i, errors |-> validateParsedSpec(spec').errors])]
  /\ tools' = tools \o generate(spec')
  /\ i' = i + 1
  /\ UNCHANGED <<pc, schema, inputs>>

\* one turn of the loop for a document whose report is valid
BatchPush ==
  /\ pc = "batch" /\ i <= Len(inputs)
  /\ ~parse(inputs[i]).thrown
  /\ parse(inputs[i]).spec.info.present
  /\ validateParsedSpec(parse(inputs[i]).spec).isValid
  /\ spec' = parse(inputs[i]).spec
  /\ tools' = tools \o generate(spec')
  /\ i' = i + 1
  /\ UNCHANGED <<pc, schema, out, inputs>>

\* await generateServerCode(allMcpTools, outputPath, generateOptions)
BatchServerCode ==
  /\ pc = "batch" /\ i > Len(inputs)
  /\ out' = [out EXCEPT !.served = tools, !.files = writeToolFiles(<<>>, tools, 1)]
  /\ pc' = "generated"
  /\ UNCHANGED <<spec, i, tools, schema, inputs>>

NextBatch ==
  BatchParseError \/ BatchTitleError \/ BatchWarn \/ BatchPush \/ BatchServerCode

SpecBatch == InitBatch /\ [][NextBatch]_vars

RECURSIVE toolsOfFirst(_)
\* the tool lists of the first k inputs that parse, one after the other
toolsOfFirst(k) ==
  IF k = 0 THEN <<>>
  ELSE IF parse(inputs[k]).thrown THEN toolsOfFirst(k - 1)
  ELSE toolsOfFirst(k - 1) \o generate(parse(inputs[k]).spec)

\* the input whose tool list holds the j-th tool of the combined list
sourceOf(j) ==
  CHOOSE k \in DOMAIN inputs :
    Len(toolsOfFirst(k - 1)) < j /\ j <= Len(toolsOfFirst(k))

\* the inputs that parse and whose validation report is not valid
reportedInvalid ==
  {k \in DOMAIN inputs :
     /\ ~parse(inputs[k]).thrown
     /\ ~validateParsedSpec(parse(inputs[k]).spec).isValid}

\* C14: a ParseError of one input never rejects the batch: the run reaches
\* generateServerCode with the tools of all inputs that parse.
C14_ParseFailureStopsDocumentOnly ==
  /\ pc = "rejected" => ~parse(inputs[i]).thrown
  /\ pc = "generated" => out.served = toolsOfFirst(Len(inputs))

\* C15: the list handed to generateServerCode is the concatenation of the
\* tool lists of the inputs in input order, and an input whose validation
\* report is not valid is warned about, keeps its tools in the list and does
\* not end the batch.
C15_ConcatenationInInputOrder ==
  /\ pc = "generated" =>
       /\ \A k \in DOMAIN inputs : ~parse(inputs[k]).thrown
       /\ out.served = toolsOfFirst(Len(inputs))
  /\ pc = "batch" => tools = toolsOfFirst(i - 1)
  /\ \A k \in reportedInvalid :
       /\ ~(pc = "rejected" /\ i = k)
       /\ k < i => \E w \in DOMAIN out.warnings : out.warnings[w].input = k

\* C16: in the combined server two tools that come from different inputs have
\* different names, and each of them has its own tool file.
C16_DistinctNamesAcrossDocuments ==
  pc = "generated" =>
    \A a, b \in DOMAIN out.served :
      sourceOf(a) # sourceOf(b) =>
        /\ out.served[a].name # out.served[b].name
        /\ getKey(out.files, out.served[a].name) = out.served[a]

(***************************************************************************)
(* SpecAuthenticate: generate applied to documents of one endpoint with    *)
(* security requirements on the endpoint and on the document               *)
(***************************************************************************)
s_api_key == <<"a","p","i","_","k","e","y">>
s_bearerAuth == <<"b","e","a","r","e","r","A","u","t","h">>
s_basicAuth == <<"b","a","s","i","c","A","u","t","h">>
s_oauth == <<"o","a","u","t","h">>
s_digestAuth == <<"d","i","g","e","s","t","A","u","t","h">>
s_oidc == <<"o","i","d","c">>
s_missing == <<"m","i","s","s","i","n","g">>

SecurityScheme(type, location, name, httpScheme) ==
  [type |-> type, in |-> location, name |-> name, scheme |-> httpScheme,
   hasFlows |-> type = "oauth2", hasOpenIdConnectUrl |-> type = "openIdConnect"]

SecurityRegistry ==
  <<Prop(s_api_key, SecurityScheme("apiKey", "header", <<"X","-","A","P","I","-","K","e","y">>, "")),
    Prop(s_bearerAuth, SecurityScheme("http", "", <<>>, "bearer")),
    Prop(s_basicAuth, SecurityScheme("http", "", <<>>, "basic")),
    Prop(s_oauth, SecurityScheme("oauth2", "", <<>>, "")),
    Prop(s_digestAuth, SecurityScheme("http", "", <<>>, "digest")),
    Prop(s_oidc, SecurityScheme("openIdConnect", "", <<>>, ""))>>

\* a security requirement object naming the given schemes, in key order
Requirement(names) == [j \in 1..Len(names) |-> Prop(names[j], <<>>)]

Declared(requirements) == [has |-> TRUE, list |-> requirements]

Undeclared == [has |-> FALSE, list |-> <<>>]

EndpointSecurities ==
  {Undeclared, Declared(<<>>), Declared(<<Requirement(<<>>)>>),
   Declared(<<Requirement(<<s_api_key>>)>>),
   Declared(<<Requirement(<<s_bearerAuth, s_api_key>>)>>),
   Declared(<<Requirement(<<s_basicAuth>>), Requirement(<<s_api_key>>)>>),
   Declared(<<Requirement(<<s_oauth>>)>>), Declared(<<Requirement(<<s_digestAuth>>)>>),
   Declared(<<Requirement(<<s_oidc>>)>>), Declared(<<Requirement(<<s_missing>>)>>)}

GlobalSecurities ==
  {Undeclared, Declared(<<>>), Declared(<<Requirement(<<s_api_key>>)>>),
   Declared(<<Requirement(<<s_bearerAuth>>), Requirement(<<s_api_key>>)>>),
   Declared(<<Requirement(<<s_missing>>)>>)}

Secured(endpoint, security) ==
  [endpoint EXCEPT !.hasSecurity = security.has, !.security = security.list]

SecuredEndpoints ==
  {Secured(Endpoint(GET, p_pets, <<>>, <<>>, <<>>, NoBody), sec) : sec \in EndpointSecurities}
    \cup {Endpoint(POST, p_auth_login, <<>>, <<>>, <<>>, JsonBody(TRUE, PetBody)),
          Endpoint(DELETE, p_pets_id, <<>>, <<>>,
                   <<Param(n_id, "path", TRUE, Typed("string")), NamelessParam("header")>>,
                   NoBody)}

\* the documents with the endpoint and the global security given: as parse
\* returns them, with an empty registry, and without a registry at all
SecuredSpecs(endpoint, global) ==
  LET bare == [endpoints |-> <<endpoint>>, schemas |-> ExtractRegistry]
      withGlobal(sp) == IF global.has THEN sp @@ [globalSecurity |-> global.list] ELSE sp
  IN {withGlobal(bare @@ [securitySchemes |-> SecurityRegistry]),
      withGlobal(bare @@ [securitySchemes |-> <<>>]),
      withGlobal(bare)}

InitAuthenticate ==
  /\ inputs = <<>>
  /\ pc = "generate"
  /\ \E endpoint \in SecuredEndpoints, global \in GlobalSecurities :
       spec \in SecuredSpecs(endpoint, global)
  /\ i = 1
  /\ tools = <<>>
  /\ schema = EmptySchema
  /\ out = EmptySchema

SpecAuthenticate == InitAuthenticate /\ [][NextGenerate]_vars

\* the scheme name that comes first in the first requirement of a list
firstSchemeOf(requirements) ==
  IF Len(requirements) > 0 /\ Len(requirements[1]) > 0
    THEN requirements[1][1].key
    ELSE <<>>

\* the scheme name that governs an endpoint: of its own requirements when it
\* declares any, of the document's otherwise
governingScheme(endpoint, sp) ==
  IF endpoint.hasSecurity /\ Len(endpoint.security) > 0
    THEN firstSchemeOf(endpoint.security)
  ELSE IF "globalSecurity" \in DOMAIN sp THEN firstSchemeOf(sp.globalSecurity)
  ELSE <<>>

\* the authentication is the one the registry scheme describes
schemeAgrees(scheme, authentication) ==
  \/ /\ scheme.type = "apiKey"
     /\ authentication.type = "apiKey"
     /\ authentication.location = scheme.in
  \/ /\ scheme.type = "http"
     /\ scheme.scheme \in {"bearer", "basic"}
     /\ authentication.type = scheme.scheme
  \/ /\ scheme.type = "oauth2"
     /\ authentication.type = "oauth2"

supported(scheme) ==
  \/ scheme.type \in {"apiKey", "oauth2"}
  \/ scheme.type = "http" /\ scheme.scheme \in {"bearer", "basic"}

\* C19: the authentication of a tool is the one of the first scheme name of
\* the endpoint's own first security requirement when the endpoint declares
\* requirements, and of the document's first global requirement only when it
\* declares none; the name is looked up in the security-scheme registry, and
\* the tool has no authentication when the name or a supported scheme is
\* missing there.
C19_AuthenticationSource ==
  \A j \in DOMAIN tools :
    \A k \in DOMAIN processed :
      isToolOf(tools[j], processed[k]) =>
        LET name == governingScheme(processed[k], spec)
            authentication == tools[j].authentication
        IN /\ authentication.present =>
                /\ name # <<>>
                /\ hasKey(spec.securitySchemes, name)
                /\ startsWith(authentication.envVariable, toUpperCase(name) \o <<"_">>)
                /\ schemeAgrees(getKey(spec.securitySchemes, name), authentication)
           /\ ~authentication.present =>
                \/ name = <<>>
                \/ ~hasKey(spec.securitySchemes, name)
                \/ ~supported(getKey(spec.securitySchemes, name))

\* GET /pets declares bearerAuth first while the document asks for api_key:
\* the tool authenticates with the bearer token of bearerAuth
C19_Witness ==
  /\ pc = "returned"
  /\ Len(tools) = 1
  /\ spec.endpoints[1].hasSecurity
  /\ firstSchemeOf(spec.endpoints[1].security) = s_bearerAuth
  /\ "globalSecurity" \in DOMAIN spec
  /\ firstSchemeOf(spec.globalSecurity) = s_api_key
  /\ tools[1].authentication.present
  /\ tools[1].authentication.type = "bearer"
  /\ tools[1].authentication.envVariable
       = <<"B","E","A","R","E","R","A","U","T","H","_","T","O","K","E","N">>

(***************************************************************************)
(* validate (src/core/validator.ts).  A message is a pair of its fixed     *)
(* text and the operation, path, parameter or scheme it names; the arrays  *)
(* errors, warnings and suggestions of validate are the fields of Findings *)
(***************************************************************************)
Message(text, subject) == <<text, subject>>

Findings(errors, warnings, suggestions) ==
  [thrown |-> FALSE, errors |-> errors, warnings |-> warnings,
   suggestions |-> suggestions]

\* `${method.toUpperCase()} ${path}`
operationKeyOf(path, method) == toUpperCase(method) \o <<" ">> \o path

\* the messages validateParameters pushes for one parameter that has a name
parameterErrors(param, seen, operationKey) ==
  (IF param.in = "" THEN <<Message("missing 'in' field", operationKey)>> ELSE <<>>)
    \o (IF ~param.hasSchema THEN <<Message("missing schema/type", operationKey)>> ELSE <<>>)
    \o (IF <<param.name, param.in>> \in seen
          THEN <<Message("Duplicate parameter", operationKey)>> ELSE <<>>)
    \o (IF param.in = "path" /\ ~param.required
          THEN <<Message("Path parameter must be required", operationKey)>> ELSE <<>>)

RECURSIVE validateParameters(_, _, _, _)
\* validateParameters from the k-th parameter on; seen is paramNames
validateParameters(parameters, k, seen, operationKey) ==
  IF k > Len(parameters) THEN <<>>
  ELSE IF ~parameters[k].hasName
    THEN <<Message("Parameter missing name", operationKey)>>
           \o validateParameters(parameters, k + 1, seen, operationKey)
  ELSE parameterErrors(parameters[k], seen, operationKey)
         \o validateParameters(parameters, k + 1,
                               seen \cup {<<parameters[k].name, parameters[k].in>>},
                               operationKey)

\* validateOperation for an operation object (tags are not part of Operation:
\* the suggestion about tags is always made)
validateOperation(acc, path, method, operation) ==
  LET operationKey == operationKeyOf(path, method)
  IN [acc EXCEPT
        !.errors = @ \o (IF ~operation.hasResponses
                           THEN <<Message("Missing responses", operationKey)>> ELSE <<>>)
                     \o validateParameters(operation.parameters, 1, {}, operationKey),
        !.warnings = @ \o (IF operation.summary = <<>> /\ operation.description = <<>>
                             THEN <<Message("Missing summary and description", operationKey)>>
                             ELSE <<>>)
                       \o (IF /\ toLowerCase(method) \in {k_post, <<"p","u","t">>,
                                                           <<"p","a","t","c","h">>}
                              /\ ~operation.requestBody.present
                             THEN <<Message("might need a request body", operationKey)>>
                             ELSE <<>>),
        !.suggestions = @ \o (IF operation.operationId = <<>>
                                THEN <<Message("Consider adding operationId", operationKey)>>
                                ELSE <<>>)
                          \o <<Message("Consider adding tags", operationKey)>>]

\* one turn of the inner loop of validatePaths; operation.responses of a null
\* operation raises TypeError
validateEntry(acc, path, entry) ==
  IF ~isValidHttpMethod(entry.key) THEN acc
  ELSE IF entry.value.isNull THEN [acc EXCEPT !.thrown = TRUE]
  ELSE validateOperation(acc, path, entry.key, entry.value)

RECURSIVE validateEntries(_, _, _, _)
validateEntries(acc, path, entries, k) ==
  IF acc.thrown \/ k > Len(entries) THEN acc
  ELSE ByValue(LAMBDA next : validateEntries(next, path, entries, k + 1),
               validateEntry(acc, path, entries[k]))

\* one turn of the outer loop of validatePaths; Object.entries of a null path
\* item raises TypeError
validatePath(acc, path, pathItem) ==
  ByValue(LAMBDA checked :
            IF pathItem.isNull THEN [checked EXCEPT !.thrown = TRUE]
            ELSE validateEntries(checked, path, pathItem.entries, 1),
          IF startsWith(path, <<"/">>) THEN acc
          ELSE [acc EXCEPT !.errors = Append(@, Message("Path must start with '/'", path))])

RECURSIVE validatePaths(_, _, _)
validatePaths(acc, paths, k) ==
  IF acc.thrown \/ k > Len(paths) THEN acc
  ELSE ByValue(LAMBDA next : validatePaths(next, paths, k + 1),
               validatePath(acc, paths[k].key, paths[k].value))

\* the message validateSecuritySchemes pushes for one scheme, if any
schemeErrors(name, scheme) ==
  IF scheme.type = "" THEN <<Message("Security scheme missing type", name)>>
  ELSE IF \/ scheme.type = "apiKey" /\ (scheme.name = <<>> \/ scheme.in = "")
          \/ scheme.type = "http" /\ scheme.scheme = ""
          \/ scheme.type = "oauth2" /\ ~scheme.hasFlows
          \/ scheme.type = "openIdConnect" /\ ~scheme.hasOpenIdConnectUrl
    THEN <<Message("Security scheme missing field", name)>>
  ELSE <<>>

schemeWarnings(name, scheme) ==
  IF scheme.type \in {"", "apiKey", "http", "oauth2", "openIdConnect"} THEN <<>>
  ELSE <<Message("Unknown security scheme type", name)>>

RECURSIVE validateSecuritySchemes(_, _, _)
validateSecuritySchemes(acc, securitySchemes, k) ==
  IF k > Len(securitySchemes) THEN acc
  ELSE validateSecuritySchemes(
         [acc EXCEPT
            !.errors = @ \o schemeErrors(securitySchemes[k].key, securitySchemes[k].value),
            !.warnings = @ \o schemeWarnings(securitySchemes[k].key,
                                             securitySchemes[k].value)],
         securitySchemes, k + 1)

\* the checks of validate on info
infoErrors(doc) ==
  IF ~doc.info.present THEN <<Message("Missing required field", "info")>>
  ELSE (IF doc.info.title = <<>>
          THEN <<Message("Missing required field", "info.title")>> ELSE <<>>)
         \o (IF ~doc.info.hasVersion
               THEN <<Message("Missing required field", "info.version")>> ELSE <<>>)

\* the checks of validate after the paths: version field, servers, security
\* schemes
validateRest(acc, doc) ==
  ByValue(LAMBDA checked :
            IF doc.hasComponentsSecuritySchemes
              THEN validateSecuritySchemes(checked, doc.componentsSecuritySchemes, 1)
              ELSE checked,
          [acc EXCEPT
             !.errors = @ \o (IF ~doc.hasOpenapi /\ ~doc.hasSwagger
                                THEN <<Message("Missing OpenAPI or Swagger version field",
                                               "")>>
                                ELSE <<>>),
             !.warnings = @ \o (IF doc.hasOpenapi /\ Len(doc.servers) = 0
                                  THEN <<Message("No servers defined", "")>> ELSE <<>>)])

\* the try block of validate: the arrays errors, warnings and suggestions when
\* it returns or raises
validateTry(doc) ==
  ByValue(LAMBDA afterPaths :
            IF afterPaths.thrown THEN afterPaths ELSE validateRest(afterPaths, doc),
          IF ~doc.hasPaths \/ Len(doc.paths) = 0
            THEN Findings(Append(infoErrors(doc),
                                 Message("No paths defined in specification", "")),
                          <<>>, <<>>)
            ELSE validatePaths(Findings(infoErrors(doc), <<>>, <<>>), doc.paths, 1))

\* validate: the report of the try block, or the one of the catch block
validate(doc) ==
  ByValue(LAMBDA try :
            IF try.thrown
              THEN [isValid |-> FALSE,
                    errors |-> <<Message("Validation failed", "TypeError")>>,
                    warnings |-> try.warnings, suggestions |-> try.suggestions]
              ELSE [isValid |-> Len(try.errors) = 0, errors |-> try.errors,
                    warnings |-> try.warnings, suggestions |-> try.suggestions],
          validateTry(doc))

(***************************************************************************)
(* SpecValidate: validate applied to one source document                   *)
(***************************************************************************)
p_no_slash == <<"p","e","t","s">>

ValidateInfos ==
  {Info(t_petstore), Info(<<>>), MissingInfo,
   [Info(t_petstore) EXCEPT !.hasVersion = FALSE]}

ValidatePaths ==
  {<<>>,
   <<Prop(p_pets, PathItem(<<Prop(k_get, ListOperation)>>))>>,
   \* the same operation under a path without the leading slash
   <<Prop(p_no_slash, PathItem(<<Prop(k_get, ListOperation)>>))>>,
   \* a well-documented operation
   <<Prop(p_pets,
          PathItem(<<Prop(k_summary, PathLevelValue),
                     Prop(k_get, [Operation(<<"l","i","s","t">>, <<>>, NoBody)
                                    EXCEPT !.summary = <<"L","i","s","t">>])>>))>>,
   \* a path without the leading slash, a POST without body and responses
   <<Prop(p_no_slash,
          PathItem(<<Prop(k_post, [Operation(<<>>, <<>>, NoBody)
                                     EXCEPT !.hasResponses = FALSE])>>))>>,
   \* parameters: a duplicate, a path parameter not required, one without name
   <<Prop(p_pets_id,
          PathItem(<<Prop(k_get,
                          Operation(<<>>,
                                    <<Param(n_id, "path", FALSE, Typed("string")),
                                      Param(n_id, "path", TRUE, Typed("string")),
                                      NamelessParam("query")>>,
                                    NoBody))>>))>>,
   \* a null path item after a path without the leading slash
   <<Prop(p_no_slash, PathItem(<<Prop(k_get, ListOperation)>>)),
     Prop(p_pets, NullPathItem)>>,
   \* a null operation
   <<Prop(p_pets, PathItem(<<Prop(k_get, NullOperation)>>))>>}

ValidateSchemes ==
  {<<>>,
   <<Prop(s_api_key, SecurityScheme("apiKey", "header", <<>>, "")),
     Prop(s_oidc, SecurityScheme("mutualTLS", "", <<>>, ""))>>}

ValidateDocuments ==
  {[Document(info, paths) EXCEPT
      !.hasOpenapi = version = "openapi",
      !.hasSwagger = version = "swagger",
      !.hasComponentsSecuritySchemes = schemes # <<>>,
      !.componentsSecuritySchemes = schemes] :
     info \in ValidateInfos, paths \in ValidatePaths,
     version \in {"openapi", "swagger", ""}, schemes \in ValidateSchemes}
    \cup {[Document(info, <<>>) EXCEPT !.hasPaths = FALSE] : info \in ValidateInfos}

InitValidate ==
  /\ inputs \in {<<doc>> : doc \in ValidateDocuments}
  /\ pc = "validate"
  /\ spec = [endpoints |-> <<>>, schemas |-> <<>>]
  /\ i = 1
  /\ tools = <<>>
  /\ schema = EmptySchema
  /\ out = EmptySchema

\* return {isValid: errors.length === 0, errors, warnings, suggestions}
ValidateReturn ==
  /\ pc = "validate"
  /\ ~validateTry(inputs[1]).thrown
  /\ out' = validate(inputs[1])
  /\ pc' = "validated"
  /\ UNCHANGED <<spec, i, tools, schema, inputs>>

\* the catch block: return {isValid: false, errors: [`Validation failed: ...`], ...}
ValidateCatch ==
  /\ pc = "validate"
  /\ validateTry(inputs[1]).thrown
  /\ out' = validate(inputs[1])
  /\ pc' = "validated"
  /\ UNCHANGED <<spec, i, tools, schema, inputs>>

NextValidate == ValidateReturn \/ ValidateCatch

SpecValidate == InitValidate /\ [][NextValidate]_vars

\* C20: validate returns a report for every document; isValid is true exactly
\* when errors is empty, whatever warnings and suggestions hold, and every
\* error validate has pushed while checking the document is in errors of the
\* report.
C20_ValidateReportsEveryError ==
  /\ pc \in {"validate", "validated"}
  /\ pc = "validated" =>
       /\ out.isValid <=> Len(out.errors) = 0
       /\ \A e \in Range(validateTry(inputs[1]).errors) : e \in Range(out.errors)

\* the document has no info.version: no info object, or one without version
missingVersion(doc) == ~doc.info.present \/ ~doc.info.hasVersion

\* C21: the report of a document without info.version is not valid and has
\* an error message that names info.version.
C21_MissingVersionReported ==
  (pc = "validated" /\ missingVersion(inputs[1])) =>
    /\ ~out.isValid
    /\ \E e \in DOMAIN out.errors :
         out.errors[e] = Message("Missing required field", "info.version")

(***************************************************************************)
(* SpecServer: generateServer (src/types/index.ts) applied to one source   *)
(* document; options.enhanceDescriptions is not set                        *)
(***************************************************************************)
InitServer ==
  /\ inputs \in {<<doc>> : doc \in ValidateDocuments}
  /\ pc = "server"
  /\ spec = [endpoints |-> <<>>, schemas |-> <<>>]
  /\ i = 1
  /\ tools = <<>>
  /\ schema = EmptySchema
  /\ out = NoOutput

\* const spec = await parse(input) raises SwaggerParseError
ServerParseError ==
  /\ pc = "server"
  /\ parse(inputs[1]).thrown
  /\ pc' = "rejected"
  /\ UNCHANGED <<spec, i, tools, schema, out, inputs>>

\* console.log(`... ${spec.info.title}`) raises TypeError when info is undefined
ServerTitleError ==
  /\ pc = "server"
  /\ ~parse(inputs[1]).thrown
  /\ ~parse(inputs[1]).spec.info.present
  /\ spec' = parse(inputs[1]).spec
  /\ pc' = "rejected"
  /\ UNCHANGED <<i, tools, schema, out, inputs>>

\* throw new Error(`Validation failed: ...`)
ServerValidationError ==
  /\ pc = "server"
  /\ ~parse(inputs[1]).thrown
  /\ parse(inputs[1]).spec.info.present
  /\ ~validateParsedSpec(parse(inputs[1]).spec).isValid
  /\ spec' = parse(inputs[1]).spec
  /\ out' = [out EXCEPT !.warnings =
               Append(@, [input |-> 1, errors |-> validateParsedSpec(spec').errors])]
  /\ pc' = "rejected"
  /\ UNCHANGED <<i, tools, schema, inputs>>

\* const mcpTools = await generate(enhancedSpec);
\* await generateServerCode(mcpTools, outputPath, generateOptions)
ServerCode ==
  /\ pc = "server"
  /\ ~parse(inputs[1]).thrown
  /\ parse(inputs[1]).spec.info.present
  /\ validateParsedSpec(parse(inputs[1]).spec).isValid
  /\ spec' = parse(inputs[1]).spec
  /\ tools' = generate(spec')
  /\ out' = [out EXCEPT !.served = tools', !.files = writeToolFiles(<<>>, tools', 1)]
  /\ pc' = "generated"
  /\ UNCHANGED <<i, schema, inputs>>

NextServer ==
  ServerParseError \/ ServerTitleError \/ ServerValidationError \/ ServerCode

SpecServer == InitServer /\ [][NextServer]_vars

\* the errors of the structural validator on a document that are about a path
\* without the leading slash or about a parameter
pathAndParameterErrors(doc) ==
  {e \in Range(validateTry(doc).errors) :
     e[1] \in {"Path must start with '/'", "Path parameter must be required",
               "Duplicate parameter", "Parameter missing name",
               "missing 'in' field", "missing schema/type"}}

\* C22: generateServer reaches generateServerCode only for a document in
\* which every path starts with '/', every path parameter is required, no
\* (name, location) pair of parameters is repeated and no parameter lacks its
\* name, location or schema.
C22_ValidationErrorsBlockGeneration ==
  pc = "generated" => pathAndParameterErrors(inputs[1]) = {}

(***************************************************************************)
(* SpecRerun: parse and generate run again and again on one source         *)
(* document in one process.  Neither function writes to the document or    *)
(* to a variable of its module, so the document is the same object before  *)
(* every run; tools is the list the latest run returned.                   *)
(***************************************************************************)
MaxRuns == 2

\* the operation object parse turns into the endpoint
operationOf(endpoint) ==
  [isNull |-> FALSE, operationId |-> endpoint.operationId,
   summary |-> endpoint.summary, description |-> endpoint.description,
   parameters |-> endpoint.parameters, requestBody |-> endpoint.requestBody,
   hasResponses |-> endpoint.hasResponses,
   hasSecurity |-> endpoint.hasSecurity, security |-> endpoint.security]

\* the document with one path item of one operation for each endpoint
documentOf(endpoints) ==
  Document(Info(t_petstore),
           [j \in 1..Len(endpoints) |->
              Prop(endpoints[j].path,
                   PathItem(<<Prop(toLowerCase(endpoints[j].method),
                                   operationOf(endpoints[j]))>>))])

RerunDocuments ==
  {documentOf(eps) :
     eps \in {d \in Documents : \A a, b \in DOMAIN d : a # b => d[a].path # d[b].path}}

NoRun == [runs |-> 0, first |-> <<>>]

InitRerun ==
  /\ inputs \in {<<doc>> : doc \in RerunDocuments}
  /\ pc = "idle"
  /\ spec = [endpoints |-> <<>>, schemas |-> <<>>]
  /\ i = 1
  /\ tools = <<>>
  /\ schema = EmptySchema
  /\ out = NoRun

\* const spec = await parse(input); const mcpTools = await generate(spec)
Run ==
  /\ pc = "idle"
  /\ out.runs < MaxRuns
  /\ ~parse(inputs[1]).thrown
  /\ spec' = parse(inputs[1]).spec
  /\ tools' = generate(spec')
  /\ out' = [runs |-> out.runs + 1,
             first |-> IF out.runs = 0 THEN tools' ELSE out.first]
  /\ UNCHANGED <<pc, i, schema, inputs>>

NextRerun == Run

SpecRerun == InitRerun /\ [][NextRerun]_vars

markersOf(prop) ==
  Cardinality({f \in {"isPathParam", "isQueryParam", "isHeaderParam", "isBodyParam"} :
                 prop[f]})

\* C24: every property of every synthesized inputSchema has exactly one of
\* isPathParam, isQueryParam, isHeaderParam and isBodyParam set, also when a
\* path, query or header parameter and a property of the request body have
\* the same name.
C24_ExactlyOneLocationMarker ==
  \A j \in DOMAIN tools :
    \A k \in DOMAIN tools[j].inputSchema.properties :
      markersOf(tools[j].inputSchema.properties[k].value) = 1

\* PUT /pets/{id}: the path parameter id and the body field id share the key,
\* the body field holds it; GET /pet-store/{id}/items.v2 likewise for path
\* and query
C24_Witness ==
  /\ pc = "returned"
  /\ \E j \in DOMAIN tools : \E k \in DOMAIN processed :
       /\ isToolOf(tools[j], processed[k])
       /\ processed[k].method = PUT
       /\ processed[k].requestBody.present
       /\ \E param \in pathParametersOf(processed[k]) :
            /\ hasKey(processed[k].requestBody.schema.properties, param.name)
            /\ hasKey(tools[j].inputSchema.properties, param.name)
            /\ getKey(tools[j].inputSchema.properties, param.name).isBodyParam
            /\ ~getKey(tools[j].inputSchema.properties, param.name).isPathParam


(***************************************************************************)
(* SpecBaseUrl: the base URL of a document, by getBaseUrl of the parser    *)
(* on the source document and by getBaseUrl of the generator on the parsed *)
(* document                                                                *)
(***************************************************************************)
u_api == <<"h","t","t","p","s",":","/","/","a",".","i","o">>

u_staging == <<"h","t","t","p",":","/","/","s",".","i","o">>

h_host == <<"b",".","i","o">>

b_v2 == <<"/","v","2">>

w_http == <<"h","t","t","p">>

w_https == <<"h","t","t","p","s">>

SchemeSeparator == <<":","/","/">>

Server(url) == [url |-> url]

\* the fields of a source document that the base URL is read from: servers
\* (OpenAPI 3.x), host, basePath and schemes (Swagger 2.0), each present or
\* not
UrlDocument(servers, host, basePath, schemes) ==
  [hasServers |-> servers.has, servers |-> servers.list,
   hasHost |-> host.has, host |-> host.list,
   hasBasePath |-> basePath.has, basePath |-> basePath.list,
   hasSchemes |-> schemes.has, schemes |-> schemes.list]

\* a field that is present
Given(list) == [has |-> TRUE, list |-> list]

\* swaggerSpec.schemes?.includes('https') ? 'https' : 'http'
protocolOf(doc) ==
  IF doc.hasSchemes /\ w_https \in Range(doc.schemes) THEN w_https ELSE w_http

\* getBaseUrl of parser.ts, on the source document
getBaseUrl(doc) ==
  IF doc.hasServers /\ Len(doc.servers) > 0 THEN doc.servers[1].url
  ELSE IF doc.hasHost /\ doc.hasBasePath
    THEN protocolOf(doc) \o SchemeSeparator \o doc.host \o doc.basePath
  ELSE <<>>

\* ...(spec.servers && { servers: spec.servers }) of convertToInternalFormat:
\* the parsed document keeps servers and nothing of host, basePath, schemes
parsedServers(doc) ==
  IF doc.hasServers THEN [hasServers |-> TRUE, servers |-> doc.servers]
                    ELSE [hasServers |-> FALSE, servers |-> <<>>]

\* getBaseUrl of generator.ts, on the parsed document
generatorGetBaseUrl(sp) ==
  IF sp.hasServers /\ Len(sp.servers) > 0 THEN sp.servers[1].url ELSE <<>>

UrlDocuments ==
  {UrlDocument(servers, host, basePath, schemes) :
     servers \in {Absent, Given(<<>>), Given(<<Server(u_api)>>),
                  Given(<<Server(u_staging), Server(u_api)>>)},
     host \in {Absent, Given(h_host)},
     basePath \in {Absent, Given(<<>>), Given(b_v2)},
     schemes \in {Absent, Given(<<>>), Given(<<w_http>>), Given(<<w_https>>),
                  Given(<<w_http, w_https>>)}}

InitBaseUrl ==
  /\ inputs \in {<<doc>> : doc \in UrlDocuments}
  /\ pc = "document"
  /\ spec = EmptySchema
  /\ i = 1
  /\ tools = <<>>
  /\ schema = EmptySchema
  /\ out = <<>>

\* getBaseUrl(spec) of parser.ts
ParserBaseUrl ==
  /\ pc = "document"
  /\ out' = getBaseUrl(inputs[1])
  /\ pc' = "parser"
  /\ UNCHANGED <<spec, i, tools, schema, inputs>>

\* baseUrl of the tools: getBaseUrl(spec) of generator.ts on the parsed
\* document
GeneratorBaseUrl ==
  /\ pc = "document"
  /\ spec' = parsedServers(inputs[1])
  /\ out' = generatorGetBaseUrl(spec')
  /\ pc' = "generator"
  /\ UNCHANGED <<i, tools, schema, inputs>>

NextBaseUrl == ParserBaseUrl \/ GeneratorBaseUrl

SpecBaseUrl == InitBaseUrl /\ [][NextBaseUrl]_vars

\* the base URL of a document as described: the first server URL, else
\* scheme://host+basePath, else the empty string
describedBaseUrl(doc) ==
  IF doc.hasServers /\ Len(doc.servers) > 0 THEN doc.servers[1].url
  ELSE IF doc.hasHost
    THEN protocolOf(doc) \o SchemeSeparator \o doc.host \o doc.basePath
  ELSE <<>>

\* C25: getBaseUrl returns the first declared server URL when servers is not
\* empty, otherwise scheme://host+basePath for a Swagger 2.0 document that
\* declares a host (https if schemes includes https, else http), and the
\* empty string only when neither servers nor host is present.
C25_BaseUrl ==
  pc = "parser" => out = describedBaseUrl(inputs[1])

\* the same for the base URL the generator gives the tools
GeneratorBaseUrlAsDescribed ==
  pc = "generator" => out = describedBaseUrl(inputs[1])

\* the part of C25 about servers
FirstServerUrl ==
  (pc \in {"parser", "generator"} /\ Len(inputs[1].servers) > 0) =>
    out = inputs[1].servers[1].url


(***************************************************************************)
(* References to composed schemas (SpecExtract)                            *)
(***************************************************************************)
\* the properties of a body with every property given as a $ref replaced by
\* the schema the reference names
inlineProperties(props, sp) ==
  [j \in DOMAIN props |-> Prop(props[j].key, resolveOrSelf(props[j].value, sp))]

\* the body with its referenced properties inline
inlined(s, sp) ==
  IF s.hasProperties THEN [s EXCEPT !.properties = inlineProperties(@, sp)] ELSE s

\* the properties of the body in the variable schema that are references to
\* a composed schema of the registry
composedReferences ==
  {j \in DOMAIN schema.properties :
     /\ schema.properties[j].value.ref # <<>>
     /\ resolveSchemaReference(schema.properties[j].value.ref, spec).found
     /\ LET target == resolveSchemaReference(schema.properties[j].value.ref, spec).schema
        IN target.hasAllOf \/ target.hasAnyOf}

\* C26: every declared property is resolved through its $ref and then
\* through composition before the flattening decision: a body with a property
\* given as a $ref to a schema that is an allOf or anyOf of object schemas
\* with properties is extracted exactly as the body with that schema inline.
C26_ReferenceThenComposition ==
  (pc = "extracted" /\ ~out.thrown) =>
    out = extractSchemaProperties(inlined(schema, spec), spec)

\* the same for the bodies without a reference to a composed schema
ReferenceToPlainSchemaAsInline ==
  (pc = "extracted" /\ ~out.thrown /\ composedReferences = {}) =>
    out = extractSchemaProperties(inlined(schema, spec), spec)


(***************************************************************************)
(* SpecInputSchema: generate applied to one endpoint with a JSON request   *)
(* body drawn from the bodies of SpecExtract, with and without parameters  *)
(***************************************************************************)
ParameterLists ==
  {<<>>,
   <<Param(n_id, "path", TRUE, Typed("string")),
     Param(n_owner_name, "query", FALSE, Typed("string")),
     Param(n_request_id, "header", TRUE, Typed("string")),
     Param(n_signature, "header", TRUE, Typed("string"))>>}

InputSchemaEndpoints ==
  {Endpoint(POST, path, <<>>, <<>>, parameters, JsonBody(required, body)) :
     path \in {p_pets_id, p_auth_login}, parameters \in ParameterLists,
     required \in BOOLEAN, body \in ExtractInputs}

InitInputSchema ==
  /\ inputs = <<>>
  /\ pc = "generate"
  /\ spec \in {[endpoints |-> <<endpoint>>, schemas |-> ExtractSpec.schemas] :
                 endpoint \in InputSchemaEndpoints}
  /\ i = 1
  /\ tools = <<>>
  /\ schema = EmptySchema
  /\ out = EmptySchema

SpecInputSchema == InitInputSchema /\ [][NextGenerate]_vars

\* C27: every name listed in a synthesized inputSchema.required is a key of
\* that inputSchema.properties, for every endpoint, also when the required
\* request body has required nested object properties that were flattened.
C27_RequiredAreProperties ==
  \A j \in DOMAIN tools :
    Range(tools[j].inputSchema.required) \subseteq keySet(tools[j].inputSchema.properties)

\* the same for the endpoints whose body has no required object property
RequiredLeavesAreProperties ==
  \A j \in DOMAIN tools : \A k \in DOMAIN processed :
    (/\ isToolOf(tools[j], processed[k])
     /\ LET root == bodyRoot(processed[k].requestBody.schema, spec)
        IN \A h \in DOMAIN root.properties :
             root.properties[h].key \in Range(root.required) =>
               ~isNonEmptyObject(
                  resolveSchemaComposition(resolveOrSelf(root.properties[h].value, spec),
                                           spec))) =>
      Range(tools[j].inputSchema.required) \subseteq keySet(tools[j].inputSchema.properties)


\* the inputs of an endpoint and the key each is stored under: its path and
\* query parameters and its header parameters other than signatures under
\* their names, the leaf fields of its JSON request body under the names
\* of the path to the leaf joined by '_'
parameterInputs(endpoint) ==
  {[in |-> endpoint.parameters[h].in, path |-> <<endpoint.parameters[h].name>>,
    key |-> nameKey(endpoint.parameters[h])] :
     h \in {g \in DOMAIN endpoint.parameters :
              /\ endpoint.parameters[g].in \in {"path", "query", "header"}
              /\ endpoint.parameters[g].in = "header" =>
                   ~isSignatureHeader(endpoint.parameters[g])}}

bodyInputs(endpoint, sp) ==
  IF endpoint.requestBody.present /\ endpoint.requestBody.hasJsonSchema
    THEN {[in |-> "body", path |-> lp.path, key |-> flatKey(lp)] :
            lp \in leafPaths(bodyRoot(endpoint.requestBody.schema, sp), sp, 1)}
    ELSE {}

inputsOf(endpoint, sp) == parameterInputs(endpoint) \cup bodyInputs(endpoint, sp)

\* C28: the keys of an input schema never collide: distinct inputs of one
\* endpoint (its path, query and non-signature header parameters and every
\* leaf field of its request body) have distinct keys in
\* inputSchema.properties, so that no parameter or body field overwrites
\* another.
C28_KeysNeverCollide ==
  \A j \in DOMAIN tools : \A k \in DOMAIN processed :
    isToolOf(tools[j], processed[k]) =>
      \A a, b \in inputsOf(processed[k], spec) :
        (/\ a # b
         /\ hasKey(tools[j].inputSchema.properties, a.key)
         /\ hasKey(tools[j].inputSchema.properties, b.key)) => a.key # b.key

(***************************************************************************)
(* Fields lost by flattening (SpecExtract)                                 *)
(***************************************************************************)
\* the keys of the extracted properties that stand for the declared property
\* at the end of path, or for a field below it
keysFrom(path) ==
  {k \in keySet(out.properties) :
     \/ k = join(path, Underscore)
     \/ startsWith(k, join(path, Underscore) \o Underscore)}

\* C29: no declared body field is lost by flattening: every property
\* declared at any depth of a request-body schema contributes at least one
\* key to the extracted properties, also a nested property of type object
\* whose own properties map is empty.
C29_NoFieldLost ==
  (pc = "extracted" /\ ~out.thrown) =>
    \A lp \in leafPaths(bodyRoot(schema, spec), spec, 1) : keysFrom(lp.path) # {}

\* the same for the declared properties at the root of the body
NoRootFieldLost ==
  (pc = "extracted" /\ ~out.thrown) =>
    \A lp \in leafPaths(bodyRoot(schema, spec), spec, 1) :
      Len(lp.path) = 1 => keysFrom(lp.path) # {}


(***************************************************************************)
(* Description enhancer (unnamed/part_002)                                 *)
(***************************************************************************)
RECURSIVE trimStart(_)
trimStart(s) == IF Len(s) > 0 /\ Head(s) = " " THEN trimStart(Tail(s)) ELSE s

RECURSIVE trimEnd(_)
trimEnd(s) ==
  IF Len(s) > 0 /\ s[Len(s)] = " " THEN trimEnd(SubSeq(s, 1, Len(s) - 1)) ELSE s

\* String.prototype.trim
trim(s) == trimEnd(trimStart(s))

\* enhanced.charAt(0).toUpperCase() + enhanced.slice(1)
capitalize(s) == IF Len(s) > 0 THEN <<toUpperChar(Head(s))>> \o Tail(s) ELSE s

\* a description that does not end in '.', '!' or '?' gets a final '.'
punctuate(s, type) ==
  IF type = "description" /\ Len(s) > 0 /\ s[Len(s)] \notin {".", "!", "?"}
    THEN Append(s, ".") ELSE s

RECURSIVE replaceAll(_, _, _)
\* enhanced.replace(new RegExp(original, 'g'), replacement) for a pattern
\* without special characters
replaceAll(s, pat, rep) ==
  IF Len(s) < Len(pat) THEN s
  ELSE IF startsWith(s, pat)
    THEN rep \o replaceAll(SubSeq(s, Len(pat) + 1, Len(s)), pat, rep)
  ELSE <<Head(s)>> \o replaceAll(Tail(s), pat, rep)

\* the table of abbreviations, in the order of its keys
replacements ==
  <<Prop(<<"G","e","t"," ">>, <<"R","e","t","r","i","e","v","e"," ">>), Prop(<<"G","e","t","s"," ">>, <<"R","e","t","r","i","e","v","e","s"," ">>),
    Prop(<<"P","o","s","t"," ">>, <<"C","r","e","a","t","e"," ">>), Prop(<<"P","o","s","t","s"," ">>, <<"C","r","e","a","t","e","s"," ">>),
    Prop(<<"P","u","t"," ">>, <<"U","p","d","a","t","e"," ">>), Prop(<<"P","u","t","s"," ">>, <<"U","p","d","a","t","e","s"," ">>),
    Prop(<<"D","e","l","e","t","e"," ">>, <<"R","e","m","o","v","e"," ">>), Prop(<<"D","e","l","e","t","e","s"," ">>, <<"R","e","m","o","v","e","s"," ">>),
    Prop(<<"A","P","I">>, <<"A","P","I">>), Prop(<<"I","D">>, <<"i","d","e","n","t","i","f","i","e","r">>), Prop(<<"I","D","s">>, <<"i","d","e","n","t","i","f","i","e","r","s">>),
    Prop(<<"J","S","O","N">>, <<"J","S","O","N">>), Prop(<<"H","T","T","P">>, <<"H","T","T","P">>), Prop(<<"U","R","L">>, <<"U","R","L">>), Prop(<<"U","R","I">>, <<"U","R","I">>)>>

RECURSIVE applyReplacements(_, _)
\* for (const [original, replacement] of Object.entries(replacements))
applyReplacements(s, k) ==
  IF k > Len(replacements) THEN s
  ELSE ByValue(LAMBDA next : applyReplacements(next, k + 1),
               replaceAll(s, replacements[k].key, replacements[k].value))

\* the positions where the text matches pat, whatever the case of its letters
matchesAt(s, pat) ==
  {a \in 1..(Len(s) - Len(pat) + 1) : toLowerCase(SubSeq(s, a, a + Len(pat) - 1)) = pat}

\* the matches of /head (.+) sep (.+)/gi in a text of one line: head at a, the
\* separator at b, with at least one character between them and after b
phraseMatches(s, head, sep) ==
  {m \in matchesAt(s, head \o <<" ">>) \X matchesAt(s, <<" ">> \o sep \o <<" ">>) :
     /\ m[2] >= m[1] + Len(head) + 2
     /\ m[2] + Len(sep) + 2 <= Len(s)}

\* .replace(/head (.+) sep (.+)/gi, 'newHead $1 newSep $2'): the leftmost
\* match, its first group as long as possible, its second group up to the
\* end of the line
rewritePhrase(s, head, sep, newHead, newSep) ==
  IF phraseMatches(s, head, sep) = {} THEN s
  ELSE LET ms == phraseMatches(s, head, sep)
           a == CHOOSE x \in {m[1] : m \in ms} : \A y \in {m[1] : m \in ms} : x <= y
           b == CHOOSE x \in {m[2] : m \in {n \in ms : n[1] = a}} :
                  \A y \in {m[2] : m \in {n \in ms : n[1] = a}} : x >= y
       IN SubSeq(s, 1, a - 1) \o newHead \o <<" ">>
            \o SubSeq(s, a + Len(head) + 1, b - 1) \o <<" ">> \o newSep \o <<" ">>
            \o SubSeq(s, b + Len(sep) + 2, Len(s))

\* .replace(/create new (.+)/gi, 'create a new $1')
rewriteCreateNew(s) ==
  LET head == <<"c","r","e","a","t","e"," ","n","e","w"," ">>
      ms == {a \in matchesAt(s, head) : a + Len(head) <= Len(s)}
  IN IF ms = {} THEN s
     ELSE LET a == CHOOSE x \in ms : \A y \in ms : x <= y
          IN SubSeq(s, 1, a - 1) \o <<"c","r","e","a","t","e"," ","a"," ","n","e","w"," ">> \o SubSeq(s, a + Len(head), Len(s))

\* the chain of phrase improvements
improvePhrases(s) ==
  ByValue(LAMBDA s1 :
    ByValue(LAMBDA s2 :
      ByValue(LAMBDA s3 :
        ByValue(LAMBDA s4 : rewritePhrase(s4, <<"d","e","l","e","t","e">>, <<"b","y">>, <<"r","e","m","o","v","e">>, <<"u","s","i","n","g">>),
                rewritePhrase(s3, <<"u","p","d","a","t","e">>, <<"b","y">>, <<"u","p","d","a","t","e">>, <<"u","s","i","n","g">>)),
              rewriteCreateNew(s2)),
            rewritePhrase(s1, <<"g","e","t">>, <<"b","y">>, <<"r","e","t","r","i","e","v","e">>, <<"u","s","i","n","g">>)),
          rewritePhrase(s, <<"f","i","n","d">>, <<"b","y">>, <<"r","e","t","r","i","e","v","e">>, <<"u","s","i","n","g">>))

\* the context added to a description that has 'retrieve' and 'identifier'
addContext(s, type) ==
  IF type = "description" /\ includes(s, <<"r","e","t","r","i","e","v","e">>) /\ includes(s, <<"i","d","e","n","t","i","f","i","e","r">>)
    THEN rewritePhrase(s, <<"r","e","t","r","i","e","v","e">>, <<"u","s","i","n","g">>,
                       <<"r","e","t","r","i","e","v","e"," ","d","e","t","a","i","l","e","d"," ","i","n","f","o","r","m","a","t","i","o","n"," ","a","b","o","u","t">>, <<"u","s","i","n","g"," ","i","t","s"," ","u","n","i","q","u","e">>)
    ELSE s

ruleBasedEnhancement(text, type) ==
  ByValue(LAMBDA cleaned :
    ByValue(LAMBDA replaced :
      ByValue(LAMBDA improved : addContext(improved, type), improvePhrases(replaced)),
            applyReplacements(cleaned, 1)),
          punctuate(capitalize(trim(text)), type))

\* enhanceText(...).enhanced
enhanceText(text, type) == ruleBasedEnhancement(text, type)

\* extractResourceName
extractResourceName(path) ==
  LET isName(segment) == Len(segment) > 0 /\ Head(segment) # "{"
      segments == SelectSeq(split(path, "/"), isName)
  IN IF Len(segments) = 0 THEN <<"r","e","s","o","u","r","c","e">>
     ELSE LET lastSegment == segments[Len(segments)]
          IN IF lastSegment[Len(lastSegment)] = "s" /\ Len(lastSegment) > 1
               THEN SubSeq(lastSegment, 1, Len(lastSegment) - 1)
               ELSE lastSegment

\* getActionVerb
getActionVerb(method) ==
  CASE toLowerCase(method) = <<"g","e","t">> -> <<"R","e","t","r","i","e","v","e">>
    [] toLowerCase(method) = <<"p","o","s","t">> -> <<"C","r","e","a","t","e">>
    [] toLowerCase(method) = <<"p","u","t">> -> <<"U","p","d","a","t","e">>
    [] toLowerCase(method) = <<"p","a","t","c","h">> -> <<"M","o","d","i","f","y">>
    [] toLowerCase(method) = <<"d","e","l","e","t","e">> -> <<"R","e","m","o","v","e">>
    [] toLowerCase(method) = <<"h","e","a","d">> -> <<"C","h","e","c","k">>
    [] toLowerCase(method) = <<"o","p","t","i","o","n","s">> -> <<"Q","u","e","r","y"," ","o","p","t","i","o","n","s"," ","f","o","r">>
    [] OTHER -> <<"P","r","o","c","e","s","s">>

\* hasPathParameters
hasPathParameters(path) == "{" \in Range(path) /\ "}" \in Range(path)

\* the text of a parameter location
locationText(location) ==
  CASE location = "path" -> <<"p","a","t","h">>
    [] location = "query" -> <<"q","u","e","r","y">>
    [] location = "header" -> <<"h","e","a","d","e","r">>
    [] location = "body" -> <<"b","o","d","y">>
    [] OTHER -> <<>>

\* endpoint.parameters.map(p => p.in).filter(first occurrence).join(', ')
paramTypesOf(parameters) ==
  LET firstOf(k) == \A h \in 1..(k - 1) : parameters[h].in # parameters[k].in
      kept == SelectSeq([k \in DOMAIN parameters |-> k], firstOf)
  IN join([k \in DOMAIN kept |-> locationText(parameters[kept[k]].in)], <<","," ">>)

\* generateDescription(...).enhanced
generateDescription(endpoint) ==
  LET method == toLowerCase(endpoint.method)
      resource == extractResourceName(endpoint.path)
      action == getActionVerb(method)
      description ==
        CASE method = <<"g","e","t">> ->
               IF hasPathParameters(endpoint.path)
                 THEN action \o <<" ","d","e","t","a","i","l","e","d"," ","i","n","f","o","r","m","a","t","i","o","n"," ","a","b","o","u","t"," ","a"," ","s","p","e","c","i","f","i","c"," ">> \o resource
                        \o <<" ","u","s","i","n","g"," ","i","t","s"," ","i","d","e","n","t","i","f","i","e","r">>
                 ELSE action \o <<" ","a"," ","l","i","s","t"," ","o","f"," ">> \o resource
                        \o <<"s"," ","w","i","t","h"," ","o","p","t","i","o","n","a","l"," ","f","i","l","t","e","r","i","n","g"," ","a","n","d"," ","p","a","g","i","n","a","t","i","o","n">>
          [] method = <<"p","o","s","t">> ->
               action \o <<" ","a"," ","n","e","w"," ">> \o resource \o <<" ","w","i","t","h"," ","t","h","e"," ","p","r","o","v","i","d","e","d"," ","d","a","t","a">>
          [] method = <<"p","u","t">> ->
               action \o <<" ","a","n"," ","e","x","i","s","t","i","n","g"," ">> \o resource
                 \o <<" ","w","i","t","h"," ","n","e","w"," ","d","a","t","a",","," ","r","e","p","l","a","c","i","n","g"," ","a","l","l"," ","f","i","e","l","d","s">>
          [] method = <<"p","a","t","c","h">> ->
               action \o <<" ","s","p","e","c","i","f","i","c"," ","f","i","e","l","d","s"," ","o","f"," ","a","n"," ","e","x","i","s","t","i","n","g"," ">> \o resource
          [] method = <<"d","e","l","e","t","e">> ->
               action \o <<" ","a"," ","s","p","e","c","i","f","i","c"," ">> \o resource \o <<" ","f","r","o","m"," ","t","h","e"," ","s","y","s","t","e","m">>
          [] OTHER ->
               action \o <<" ">> \o resource \o <<" ","u","s","i","n","g"," ">> \o toUpperCase(method) \o <<" ","m","e","t","h","o","d">>
  IN IF Len(endpoint.parameters) > 0
       THEN description \o <<"."," ","A","c","c","e","p","t","s"," ">> \o paramTypesOf(endpoint.parameters)
              \o <<" ","p","a","r","a","m","e","t","e","r","s">>
       ELSE description

\* enhanceEndpoint: the summary rewritten, the description rewritten or, when
\* there is none, generated from the method and the path
enhanceEndpoint(endpoint) ==
  LET summary == IF endpoint.summary # <<>> THEN enhanceText(endpoint.summary, "summary")
                                            ELSE endpoint.summary
  IN [endpoint EXCEPT
        !.summary = summary,
        !.description =
           IF endpoint.description # <<>>
             THEN enhanceText(endpoint.description, "description")
           ELSE IF summary # <<>> THEN generateDescription(endpoint)
           ELSE endpoint.description]

\* enhance with options.enabled
enhance(sp) ==
  [sp EXCEPT !.endpoints = [k \in DOMAIN sp.endpoints |-> enhanceEndpoint(sp.endpoints[k])]]

(***************************************************************************)
(* SpecEnhance: generate applied to a parsed document and to its enhanced  *)
(* form                                                                    *)
(***************************************************************************)
Described(endpoint, summary, description) ==
  [endpoint EXCEPT !.summary = summary, !.description = description]

Summaries == {<<>>, <<"L","i","s","t"," ","w","r","i","t","e","r","s">>, <<"g","e","t"," ","p","e","t"," ","b","y"," ","I","D">>, <<"L","o","g","i","n"," ","h","i","s","t","o","r","y">>}

Descriptions == {<<>>, <<" ","f","i","n","d"," ","p","e","t","s"," ","b","y"," ","t","a","g">>, <<"G","e","t"," ","t","h","e"," ","a","c","c","e","s","s"," ","t","o","k","e","n">>}

EnhanceOperations ==
  {Endpoint(GET, p_authors, <<>>, <<>>, <<>>, NoBody),
   Endpoint(GET, p_reports, <<>>, <<>>,
            <<Param(n_limit, "query", FALSE, Typed("integer"))>>, NoBody),
   Endpoint(GET, p_pets_id, <<>>, <<>>,
            <<Param(n_id, "path", TRUE, Typed("string"))>>, NoBody),
   Endpoint(POST, p_pets, <<>>, <<>>, <<>>, JsonBody(TRUE, PetBody)),
   Endpoint(PUT, p_pets_id, <<>>, <<>>,
            <<Param(n_id, "path", TRUE, Typed("string")),
              Param(n_tag, "query", FALSE, Typed("string"))>>, JsonBody(TRUE, PetBody)),
   Endpoint(DELETE, p_pets_id, <<>>, <<>>,
            <<Param(n_id, "path", TRUE, Typed("string"))>>, NoBody)}

EnhanceEndpoints ==
  {Described(endpoint, summary, description) :
     endpoint \in EnhanceOperations, summary \in Summaries, description \in Descriptions}

\* the documents of one endpoint, and of one endpoint followed by GET /pets
EnhanceDocuments ==
  {<<endpoint>> : endpoint \in EnhanceEndpoints}
    \cup {<<endpoint, Described(Endpoint(GET, p_pets, <<>>, <<>>, <<>>, NoBody),
                                summary, <<>>)>> :
            endpoint \in EnhanceEndpoints, summary \in {<<>>, <<"L","i","s","t"," ","p","e","t","s">>}}

InitEnhance ==
  /\ inputs = <<>>
  /\ pc = "parsed"
  /\ spec \in {[endpoints |-> eps, schemas |-> ExtractRegistry] : eps \in EnhanceDocuments}
  /\ i = 1
  /\ tools = <<>>
  /\ schema = EmptySchema
  /\ out = <<>>

\* enhance(spec, {enabled: true})
Enhance ==
  /\ pc = "parsed"
  /\ inputs' = <<spec>>
  /\ spec' = enhance(spec)
  /\ pc' = "enhanced"
  /\ UNCHANGED <<i, tools, schema, out>>

\* enhance(spec, {enabled: false}): return spec
EnhanceDisabled ==
  /\ pc = "parsed"
  /\ inputs' = <<spec>>
  /\ pc' = "enhanced"
  /\ UNCHANGED <<spec, i, tools, schema, out>>

\* generate of the enhanced document in tools, of the parsed one in out
GenerateBoth ==
  /\ pc = "enhanced"
  /\ tools' = generate(spec)
  /\ out' = generate(inputs[1])
  /\ pc' = "generated"
  /\ UNCHANGED <<spec, i, schema, inputs>>

NextEnhance == Enhance \/ EnhanceDisabled \/ GenerateBoth

SpecEnhance == InitEnhance /\ [][NextEnhance]_vars

\* C30: description enhancement is cosmetic with respect to synthesis:
\* generate(enhance(spec)) and generate(spec) have tools for exactly the same
\* endpoints, with the same names, methods, paths and input schemas in the
\* same order (a tool of the model carries no description text, so this is
\* the equality of the two lists).
C30_EnhancementIsCosmetic ==
  pc = "generated" => tools = out

\* the same for the documents in which every endpoint with a summary has a
\* description as well
RewritingIsCosmetic ==
  (/\ pc = "generated"
   /\ \A k \in DOMAIN inputs[1].endpoints :
        inputs[1].endpoints[k].summary # <<>> =>
          inputs[1].endpoints[k].description # <<>>) =>
    tools = out

====
